---- MODULE Spec2Model ----
(***************************************************************************)
(* Bundle File Tool v2.1: the bundle codecs (plain_marker, md_fence), the  *)
(* path validator, the glob filter, the collector and the extractor.       *)
(*                                                                         *)
(* Text is a sequence of characters.  A character is a string: "a" is an   *)
(* ordinary word character, "LF" "CR" "SP" are \n \r and the blank, and a  *)
(* few indivisible atoms stand for the multi-character strings the         *)
(* regular expressions of the codecs look for:                             *)
(*   "SEP"       "# ====...===="   (SEPARATOR, matched by SEPARATOR_PATTERN)*)
(*   "#FILE:"    "# FILE:"         "#META:"  "# META:"                     *)
(*   "<!--FILE:" "<!-- FILE:"      "-->"     ";"     "FENCE" (three backticks)*)
(*   "encoding=utf-8", "eol=LF", ...  one key=value field of a META line   *)
(* Bytes are numbers; a byte above 255 stands for the bytes of an atom.     *)
(***************************************************************************)
EXTENDS Integers, Sequences, FiniteSets, TLC

VARIABLES
    \* ---- codec: one encode / decode call
    codec,          \* "plain_marker" | "md_fence": the profile in use
    manifest,       \* entries handed to format_manifest
    bundle,         \* bundle text
    blocks,         \* the block shapes a received bundle text is made of
    decoded,        \* outcome of parse_stream: [status, entries]
    cphase          \* "new" | "encoded" | "received" | "roundtrip" | "decoded" | "failed"

codecVars == <<codec, manifest, bundle, blocks, decoded, cphase>>

VARIABLES
    \* ---- extractor: one BundleWriter and the disk it writes to
    overwrite_policy,   \* "prompt" | "skip" | "rename" | "overwrite"
    dry_run,
    add_headers,
    files_written,      \* list of targets written (or simulated) in this run
    files_skipped,      \* list of targets skipped in this run
    files_renamed,      \* set of <<original target, renamed target>>
    pending_writes,     \* set of targets of this run
    disk,               \* [files: path -> bytes, dirs: set of paths]
    run_manifest,       \* manifest.entries of the running extract_manifest call
    position,           \* number of entries the loop has gone through
    stats,              \* [processed, skipped, errors]
    last,               \* what the latest loop iteration did
    disk0,              \* the disk when extract_manifest was called
    run_no,             \* number of extract_manifest calls made on the writer
    xphase              \* "idle" | "running" | "returned" | "raised"

writerVars ==
    <<overwrite_policy, dry_run, add_headers, files_written, files_skipped,
      files_renamed, pending_writes>>

extractVars ==
    <<writerVars, disk, run_manifest, position, stats, last, disk0, run_no, xphase>>

VARIABLES
    \* ---- path validator: one call of validate_path or is_safe_path
    vpath,              \* the path argument
    allow_absolute,
    verdict,            \* [status, resolved]: what the call returned or raised
    vphase              \* "new" | "validated" | "asked"

validatorVars == <<vpath, allow_absolute, verdict, vphase>>

VARIABLES
    \* ---- glob filter: one GlobFilter and one call of it
    allow_patterns,
    deny_patterns,
    gpath,              \* the path string given to should_include
    gpaths,             \* the list of Path objects given to filter_paths
    base_path,          \* the base given to filter_paths (<<>>: None)
    included,           \* [status, value, kept]: what the call returned or raised
    gphase              \* "built" | "decided" | "filtered"

globVars == <<allow_patterns, deny_patterns, gpath, gpaths, base_path, included, gphase>>

VARIABLES
    \* ---- bundle creator: one create_manifest call of one BundleCreator
    source_tree,        \* the files given to create_manifest: [path, data], sorted
    profile_name,       \* the profile the manifest is created for
    max_file_mb,        \* the size ceiling of the BundleCreator, in bytes
    treat_binary_as_base64,
    kphase              \* "found" | "collected" | "FileSizeError" | "BundleWriteError"

creatorVars == <<source_tree, profile_name, max_file_mb, treat_binary_as_base64, kphase>>

VARIABLES
    \* ---- BundleManifest: one manifest and the calls made on it
    manifest_entries,   \* self.entries
    mcall,              \* the last call: [op, arg, result, before]
    mphase              \* "new" | "built" | "failed"

manifestVars == <<manifest_entries, mcall, mphase>>

VARIABLES
    \* ---- BundleParser: auto-detection
    registry,       \* the registered profile names, in the order of the dict
    dtext,          \* the text handed to _detect_profile: [pad, rest]
    detection,      \* outcome of _detect_profile: [status, name, attempted]
    dphase          \* "ready" | "detected"

detectVars == <<registry, dtext, detection, dphase>>

----------------------------------------------------------------------------
(* The values a part of the program holds while another part runs.         *)

NoResult == [status |-> "none", entries |-> <<>>]

CodecIdle ==
    /\ codec = "plain_marker"
    /\ manifest = <<>>
    /\ bundle = <<>>
    /\ blocks = <<>>
    /\ decoded = NoResult
    /\ cphase = "off"

NoFiles == [p \in {} |-> <<>>]

EmptyMap == [p \in {} |-> <<>>]

NoStats == [processed |-> 0, skipped |-> 0, errors |-> 0]

NoLast ==
    [path |-> <<>>, target |-> <<>>, file_exists |-> FALSE, status |-> "none",
     written |-> <<>>, before |-> [files |-> NoFiles, dirs |-> {<<>>}], pending |-> {}]

ExtractIdle ==
    /\ overwrite_policy = "prompt"
    /\ dry_run = FALSE
    /\ add_headers = TRUE
    /\ files_written = <<>>
    /\ files_skipped = <<>>
    /\ files_renamed = EmptyMap
    /\ pending_writes = {}
    /\ disk = [files |-> NoFiles, dirs |-> {<<>>}]
    /\ run_manifest = <<>>
    /\ position = 0
    /\ stats = NoStats
    /\ last = NoLast
    /\ disk0 = [files |-> NoFiles, dirs |-> {<<>>}]
    /\ run_no = 0
    /\ xphase = "off"

NoVerdict == [status |-> "none", resolved |-> <<>>]

ValidatorIdle ==
    /\ vpath = <<>>
    /\ allow_absolute = FALSE
    /\ verdict = NoVerdict
    /\ vphase = "off"

NoDecision == [status |-> "none", kept |-> <<>>]

GlobIdle ==
    /\ allow_patterns = <<>>
    /\ deny_patterns = <<>>
    /\ gpath = <<>>
    /\ gpaths = <<>>
    /\ base_path = <<>>
    /\ included = NoDecision
    /\ gphase = "off"

CreatorIdle ==
    /\ source_tree = <<>>
    /\ profile_name = "plain_marker"
    /\ max_file_mb = 0
    /\ treat_binary_as_base64 = TRUE
    /\ kphase = "off"

NoCall == [op |-> "none", arg |-> <<>>, result |-> "none", before |-> <<>>]

ManifestIdle ==
    /\ manifest_entries = <<>>
    /\ mcall = NoCall
    /\ mphase = "off"

NoText == [pad |-> 0, rest |-> <<>>]

NoDetection == [status |-> "none", name |-> "", attempted |-> <<>>]

DetectIdle ==
    /\ registry = <<>>
    /\ dtext = NoText
    /\ detection = NoDetection
    /\ dphase = "off"

----------------------------------------------------------------------------
(* Generic sequence and text helpers (Python str methods).                 *)

Last(s) == s[Len(s)]

Front(s) == SubSeq(s, 1, Len(s) - 1)

Min(a, b) == IF a < b THEN a ELSE b

Whitespace == {"LF", "CR", "SP"}

IsWS(c) == c \in Whitespace

RECURSIVE LStrip(_)
LStrip(s) == IF s # <<>> /\ IsWS(Head(s)) THEN LStrip(Tail(s)) ELSE s

RECURSIVE RStrip(_)
RStrip(s) == IF s # <<>> /\ IsWS(Last(s)) THEN RStrip(Front(s)) ELSE s

\* str.strip()
Strip(s) == RStrip(LStrip(s))

\* str.endswith
EndsWith(s, suf) ==
    /\ Len(s) >= Len(suf)
    /\ SubSeq(s, Len(s) - Len(suf) + 1, Len(s)) = suf

RECURSIVE Flatten(_)
Flatten(ss) == IF ss = <<>> THEN <<>> ELSE Head(ss) \o Flatten(Tail(ss))

\* sep.join(parts)
RECURSIVE Join(_, _)
Join(sep, parts) ==
    IF parts = <<>> THEN <<>>
    ELSE IF Len(parts) = 1 THEN Head(parts)
    ELSE Head(parts) \o sep \o Join(sep, Tail(parts))

\* str.splitlines(keepends=True): a line ends at \n, at \r\n or at a lone \r,
\* and the text after the last line break is a last line without one.
LineEnds(s) ==
    {i \in 1..Len(s) :
        \/ s[i] = "LF"
        \/ s[i] = "CR" /\ (i = Len(s) \/ s[i + 1] # "LF")
        \/ i = Len(s)}

SplitLines(s) ==
    LET ends == LineEnds(s)
        end(k) == CHOOSE e \in ends : Cardinality({f \in ends : f <= e}) = k
    IN  [k \in 1..Cardinality(ends) |->
            SubSeq(s, IF k = 1 THEN 1 ELSE end(k - 1) + 1, end(k))]

----------------------------------------------------------------------------
(* BundleEntry (models.py).  checksum and file_size_bytes are None in      *)
(* every entry of this model.                                              *)

ValidEol == {"LF", "CRLF", "CR", "MIXED", "n/a"}

Entry(p, c, b, enc, eol) ==
    [path |-> p, content |-> c, is_binary |-> b, encoding |-> enc, eol_style |-> eol]

\* BundleEntry.__post_init__: the eol_style a constructed entry holds
\* (blank is coerced to the default of its mode).
PostInitEol(b, eol) == IF eol = "" THEN (IF b THEN "n/a" ELSE "LF") ELSE eol

\* BundleEntry.__post_init__ raises ValueError for an empty path or an
\* eol_style outside the five tokens.
PostInitOk(p, b, eol) == p # <<>> /\ PostInitEol(b, eol) \in ValidEol

\* BundleManifest.__post_init__: the duplicate-path check.
HasDuplicatePaths(entries) ==
    \E i, j \in 1..Len(entries) : i # j /\ entries[i].path = entries[j].path

----------------------------------------------------------------------------
(* META fields.  A field "key=value" is one character of the text; the     *)
(* regular expression (\w+)\s*=\s*([^;]+) recovers key and value from it.  *)
(* The value "" of a field of the parsed dictionary means the key is       *)
(* absent.                                                                 *)

MetaKeys == {"encoding", "eol", "mode", "trailing"}

MetaValues ==
    {"utf-8", "UTF-8", "base64", "LF", "CRLF", "CR", "MIXED", "n/a", "lf",
     "text", "binary", "false"}

MetaTok(k, v) == k \o "=" \o v

MetaToks == {MetaTok(kv[1], kv[2]) : kv \in MetaKeys \X MetaValues}

MetaField ==
    [t \in MetaToks |->
        CHOOSE kv \in MetaKeys \X MetaValues : MetaTok(kv[1], kv[2]) = t]

EmptyMeta == [encoding |-> "", eol |-> "", mode |-> "", trailing |-> ""]

\* dict.update with the fields found in one META string, left to right.
RECURSIVE MetaUpdate(_, _)
MetaUpdate(meta, toks) ==
    IF toks = <<>> THEN meta
    ELSE IF Head(toks) \in MetaToks
         THEN MetaUpdate([meta EXCEPT ![MetaField[Head(toks)][1]] = MetaField[Head(toks)][2]],
                         Tail(toks))
         ELSE MetaUpdate(meta, Tail(toks))

\* str.lower() on the charset and mode names of the model
Lower(s) == IF s = "UTF-8" THEN "utf-8" ELSE s

\* str.replace("\\", "/") on a path ("BS" is the backslash)
NormSep(p) == [i \in 1..Len(p) |-> IF p[i] = "BS" THEN "/" ELSE p[i]]

----------------------------------------------------------------------------
(* PlainMarkerProfile (profiles/plain_marker.py, v2.1.10)                  *)

\* FILE_PATTERN ^\s*#\s*FILE\s*:\s*(.+?)\s*$ on one line
PMFileMatch(line) ==
    LET b == LStrip(line)
    IN  /\ b # <<>>
        /\ Head(b) = "#FILE:"
        /\ \E i \in 2..Len(b) : b[i] # "LF"

\* (m_file.group(1) or "").strip()
PMFilePath(line) == Strip(Tail(LStrip(line)))

\* META_PATTERN ^\s*#\s*META\s*:\s*(.+?)\s*$ on one line
PMMetaMatch(line) ==
    LET b == LStrip(line)
    IN  /\ b # <<>>
        /\ Head(b) = "#META:"
        /\ \E i \in 2..Len(b) : b[i] # "LF"

\* SEPARATOR_PATTERN ^\s*#\s*={10,}\s*$ on one line
PMSeparatorMatch(line) == Strip(line) = <<"SEP">>

\* _parse_meta applied to the group of a META line
ParseMeta(meta, line) == MetaUpdate(meta, Tail(LStrip(line)))

\* the paths parse_stream refuses: blank, ".", "./", ".\", "/"
DegeneratePaths == {<<>>, <<".">>, <<".", "/">>, <<".", "BS">>, <<"/">>}

TrimHeaderSpacing(content, meta) ==
    LET trailing == meta.trailing
    IN  IF Strip(content) = <<>> THEN <<>>
        ELSE IF EndsWith(content, <<"LF", "LF">>)
             THEN (IF trailing = "false"
                   THEN SubSeq(content, 1, Len(content) - 2)
                   ELSE Front(content))
        ELSE IF EndsWith(content, <<"LF">>)
             THEN (IF trailing = "false" THEN Front(content) ELSE content)
        ELSE content

\* _finalize: the fields handed to BundleEntry(...)
PMFinalize(path, content, meta) ==
    LET mode      == Lower(meta.mode)
        candidate == IF meta.encoding # "" THEN meta.encoding
                     ELSE IF mode = "binary" THEN "base64" ELSE "utf-8"
        encoding  == Lower(candidate)
        is_binary == (mode = "binary") \/ (encoding = "base64")
        eol       == IF meta.eol # "" THEN meta.eol
                     ELSE IF is_binary THEN "n/a" ELSE "LF"
    IN  Entry(NormSep(path), content, is_binary, encoding, eol)

\* flush of the block under construction: entries.append(self._finalize(...));
\* bad is set when BundleEntry.__post_init__ raises.
PMFlush(st) ==
    IF ~st.open THEN st
    ELSE LET e == PMFinalize(st.path, TrimHeaderSpacing(st.content, st.meta), st.meta)
         IN  IF PostInitOk(e.path, e.is_binary, e.eol_style)
             THEN [st EXCEPT !.entries = Append(@, e)]
             ELSE [st EXCEPT !.bad = TRUE]

\* the loop of parse_stream over text.splitlines(keepends=True)
RECURSIVE PMScan(_, _, _)
PMScan(lines, i, st) ==
    IF i > Len(lines) \/ st.bad THEN st
    ELSE LET line == lines[i] IN
        IF PMFileMatch(line) THEN
            LET fl  == PMFlush(st)
                raw == PMFilePath(line)
            IN  IF raw \in DegeneratePaths
                THEN PMScan(lines, i + 1,
                        [fl EXCEPT !.open = FALSE, !.path = <<>>, !.content = <<>>,
                                   !.meta = EmptyMeta])
                ELSE PMScan(lines, i + 1,
                        [fl EXCEPT !.open = TRUE, !.path = raw, !.content = <<>>,
                                   !.meta = EmptyMeta])
        ELSE IF PMMetaMatch(line) /\ st.open THEN
            PMScan(lines, i + 1, [st EXCEPT !.meta = ParseMeta(st.meta, line)])
        ELSE IF PMSeparatorMatch(line) THEN PMScan(lines, i + 1, st)
        ELSE IF st.open THEN
            PMScan(lines, i + 1, [st EXCEPT !.content = @ \o line])
        ELSE PMScan(lines, i + 1, st)

\* last-one-wins dedupe: for e in reversed(entries) ... consolidated.reverse()
RECURSIVE LastOneWins(_, _, _, _)
LastOneWins(entries, i, seen, acc) ==
    IF i = 0 THEN acc
    ELSE IF entries[i].path \in seen
         THEN LastOneWins(entries, i - 1, seen, acc)
         ELSE LastOneWins(entries, i - 1, seen \cup {entries[i].path},
                          <<entries[i]>> \o acc)

PMConsolidate(entries) == LastOneWins(entries, Len(entries), {}, <<>>)

\* PlainMarkerProfile.parse_stream
PMParseStream(text) ==
    LET st0 == [entries |-> <<>>, open |-> FALSE, path |-> <<>>, content |-> <<>>,
                meta |-> EmptyMeta, bad |-> FALSE]
        scanned == PMScan(SplitLines(text), 1, st0)
        st  == IF scanned.bad THEN scanned ELSE PMFlush(scanned)
    IN  IF st.bad THEN [status |-> "ValueError", entries |-> <<>>]
        ELSE IF st.entries = <<>> THEN [status |-> "ProfileParseError", entries |-> <<>>]
        ELSE [status |-> "ok", entries |-> PMConsolidate(st.entries)]

\* _validate_before_format, per entry (content is a str in this model)
PMValidateBeforeFormat(e) ==
    LET enc == IF e.encoding = "" THEN (IF e.is_binary THEN "base64" ELSE "utf-8")
               ELSE e.encoding
        eol == IF e.eol_style = "" THEN (IF e.is_binary THEN "n/a" ELSE "LF")
               ELSE IF ~e.is_binary /\ e.eol_style \notin {"LF", "CRLF", "CR", "MIXED"}
                    THEN "LF"
               ELSE IF e.is_binary /\ e.eol_style # "n/a" THEN "n/a"
               ELSE e.eol_style
    IN  [e EXCEPT !.encoding = enc, !.eol_style = eol]

\* one block of format_manifest
PMBlock(e0) ==
    LET e      == PMValidateBeforeFormat(e0)
        mode   == IF e.is_binary THEN "binary" ELSE "text"
        header == <<"SEP", "LF", "#FILE:", "SP">> \o e.path \o
                  <<"LF", "#META:", "SP", MetaTok("encoding", e.encoding), ";", "SP",
                    MetaTok("eol", e.eol_style), ";", "SP", MetaTok("mode", mode), "LF",
                    "SEP", "LF">>
        payload == IF e.is_binary THEN Strip(e.content) ELSE e.content
        block  == header \o payload
    IN  IF EndsWith(block, <<"LF">>) THEN block ELSE Append(block, "LF")

\* PlainMarkerProfile.format_manifest
PMFormatManifest(entries) ==
    Flatten([i \in 1..Len(entries) |-> PMBlock(entries[i])])

----------------------------------------------------------------------------
(* MarkdownFenceProfile (profiles/markdown_fence.py)                       *)

\* word characters (\w) of the alphabet
WordChars == {"a", "b", "python", "json"}

\* EXTENSION_MAP restricted to the extensions of the model ("" is no hint)
ExtensionMap(ext) ==
    IF ext = ".py" THEN "python" ELSE IF ext = ".json" THEN "json" ELSE ""

\* _infer_language: the extension is what follows the last dot of the path
InferLanguage(path) == IF path = <<>> THEN "" ELSE ExtensionMap(Last(path))

\* position of the first ";" of a line (0: none)
RECURSIVE FirstSemi(_, _)
FirstSemi(b, i) ==
    IF i > Len(b) THEN 0 ELSE IF b[i] = ";" THEN i ELSE FirstSemi(b, i + 1)

\* FILE_PATTERN ^\s*<!--\s*FILE:\s*([^;]+)\s*;\s*(.+?)\s*-->\s*$ on one line
MFFileMatch(line) ==
    LET b == Strip(line)
        k == FirstSemi(b, 1)
    IN  /\ Len(b) >= 5
        /\ Head(b) = "<!--FILE:"
        /\ Last(b) = "-->"
        /\ k >= 3
        /\ k <= Len(b) - 2

\* file_match.group(1).strip()
MFFilePath(line) ==
    LET b == Strip(line) IN Strip(SubSeq(b, 2, FirstSemi(b, 1) - 1))

\* _parse_metadata(file_match.group(2).strip())
MFParseMetadata(line) ==
    LET b == Strip(line)
    IN  MetaUpdate(EmptyMeta, SubSeq(b, FirstSemi(b, 1) + 1, Len(b) - 1))

\* FENCE_OPEN_PATTERN: blanks, the fence, word characters, blanks
MFFenceOpenMatch(line) ==
    LET b == Strip(line)
    IN  /\ b # <<>>
        /\ Head(b) = "FENCE"
        /\ \A i \in 2..Len(b) : b[i] \in WordChars

\* FENCE_CLOSE_PATTERN: blanks, the fence, blanks
MFFenceCloseMatch(line) == Strip(line) = <<"FENCE">>

\* _finalize_entry: the fields handed to BundleEntry(...)
MFFinalizeEntry(path, content, meta) ==
    LET encoding == IF meta.encoding = "" THEN "utf-8" ELSE meta.encoding
        eol      == IF meta.eol = "" THEN "LF" ELSE meta.eol
        mode     == IF meta.mode = "" THEN "text" ELSE meta.mode
        stripped == IF content # <<>> /\ Last(content) = "LF" THEN Front(content)
                    ELSE content
    IN  Entry(path, stripped, mode = "binary", encoding, eol)

\* entries.append(self._finalize_entry(...)); bad is set when
\* BundleEntry.__post_init__ raises.
MFFlush(st) ==
    IF ~st.open THEN st
    ELSE LET e == MFFinalizeEntry(st.path, st.content, st.meta)
         IN  IF PostInitOk(e.path, e.is_binary, e.eol_style)
             THEN [st EXCEPT !.entries = Append(@, [e EXCEPT !.path = NormSep(@)])]
             ELSE [st EXCEPT !.bad = TRUE]

\* the loop of parse_stream over text.splitlines(keepends=True)
RECURSIVE MFScan(_, _, _)
MFScan(lines, i, st) ==
    IF i > Len(lines) \/ st.bad THEN st
    ELSE LET line == lines[i] IN
        IF MFFileMatch(line) THEN
            MFScan(lines, i + 1,
                [MFFlush(st) EXCEPT !.open = TRUE, !.path = MFFilePath(line),
                                    !.content = <<>>, !.meta = MFParseMetadata(line),
                                    !.in_fence = FALSE])
        ELSE IF MFFenceOpenMatch(line) /\ st.open /\ ~st.in_fence THEN
            MFScan(lines, i + 1, [st EXCEPT !.in_fence = TRUE])
        ELSE IF MFFenceCloseMatch(line) /\ st.in_fence THEN
            MFScan(lines, i + 1, [st EXCEPT !.in_fence = FALSE])
        ELSE IF st.in_fence /\ st.open THEN
            MFScan(lines, i + 1, [st EXCEPT !.content = @ \o line])
        ELSE MFScan(lines, i + 1, st)

\* MarkdownFenceProfile.parse_stream; BundleManifest(entries=entries) raises
\* ValueError on duplicate paths.
MFParseStream(text) ==
    LET st0 == [entries |-> <<>>, open |-> FALSE, path |-> <<>>, content |-> <<>>,
                meta |-> EmptyMeta, in_fence |-> FALSE, bad |-> FALSE]
        scanned == MFScan(SplitLines(text), 1, st0)
        st  == IF scanned.bad THEN scanned ELSE MFFlush(scanned)
    IN  IF st.bad THEN [status |-> "ValueError", entries |-> <<>>]
        ELSE IF st.entries = <<>> THEN [status |-> "ProfileParseError", entries |-> <<>>]
        ELSE IF HasDuplicatePaths(st.entries)
             THEN [status |-> "ValueError", entries |-> <<>>]
        ELSE [status |-> "ok", entries |-> st.entries]

\* MarkdownFenceProfile.validate_manifest, per entry: the eol_style default
MFValidateEntry(e) ==
    IF e.eol_style \notin ValidEol
    THEN [e EXCEPT !.eol_style = IF e.is_binary THEN "n/a" ELSE "LF"]
    ELSE e

\* the output_lines of one entry of format_manifest
MFEntryLines(e0) ==
    LET e    == MFValidateEntry(e0)
        mode == IF e.is_binary THEN "binary" ELSE "text"
        lang == InferLanguage(e.path)
    IN  << <<"<!--FILE:", "SP">> \o e.path \o
           <<";", "SP", MetaTok("encoding", e.encoding), ";", "SP",
             MetaTok("eol", e.eol_style), ";", "SP", MetaTok("mode", mode), "SP", "-->">>,
           IF e.is_binary \/ lang = "" THEN <<"FENCE">> ELSE <<"FENCE", lang>>,
           e.content,
           <<"FENCE">> >>

RECURSIVE MFOutputLines(_, _)
MFOutputLines(entries, i) ==
    IF i > Len(entries) THEN <<>>
    ELSE (IF i > 1 THEN << <<>> >> ELSE <<>>) \o MFEntryLines(entries[i])
         \o MFOutputLines(entries, i + 1)

\* MarkdownFenceProfile.format_manifest (output_lines joined by LF); a missing
\* encoding raises ProfileFormatError before anything is emitted.
MFFormatOk(entries) == \A i \in 1..Len(entries) : entries[i].encoding # ""

MFFormatManifest(entries) == Join(<<"LF">>, MFOutputLines(entries, 1))

----------------------------------------------------------------------------
(* The codec as a state machine: a caller formats a manifest, or receives  *)
(* bundle text from elsewhere, and parses the text.                        *)

ProfileNames == {"plain_marker", "md_fence"}

\* profile.format_manifest(manifest): [status, text, entries]; entries are the
\* manifest entries after the in-place normalisation of the validation pass.
FormatManifest(profile, entries) ==
    IF profile = "plain_marker"
    THEN [status |-> "ok", text |-> PMFormatManifest(entries),
          entries |-> [i \in 1..Len(entries) |-> PMValidateBeforeFormat(entries[i])]]
    ELSE IF ~MFFormatOk(entries)
         THEN [status |-> "ProfileFormatError", text |-> <<>>, entries |-> entries]
         ELSE [status |-> "ok", text |-> MFFormatManifest(entries),
               entries |-> [i \in 1..Len(entries) |-> MFValidateEntry(entries[i])]]

\* profile.parse_stream(text)
ParseStream(profile, text) ==
    IF profile = "plain_marker" THEN PMParseStream(text) ELSE MFParseStream(text)

\* ---- bounded inputs
MaxContentLen == 3

ContentChars == {"a", "LF", "CR", "SP", "SEP", "FENCE"}

RECURSIVE SeqsUpTo(_, _)
SeqsUpTo(S, n) ==
    IF n = 0 THEN {<<>>}
    ELSE LET shorter == SeqsUpTo(S, n - 1)
         IN  shorter \cup {Append(s, c) : s \in {t \in shorter : Len(t) = n - 1}, c \in S}

\* payloads whose lines look like header lines of one of the formats
CraftedContents ==
    { <<"#META:", "SP", "mode=binary", "LF">>,
      <<"a", "LF", "#FILE:", "SP", "y", "LF">>,
      <<"<!--FILE:", "SP", "y", ";", "SP", "mode=text", "SP", "-->", "LF", "a", "LF">> }

TextContents == SeqsUpTo(ContentChars, MaxContentLen) \cup CraftedContents

\* base64 text of the bytes 00, 00 01 and 00 01 02
BinaryContents == { <<"A", "A", "=", "=">>, <<"A", "A", "E", "=">>, <<"A", "A", "E", "C">> }

TextMetas ==
    { <<"utf-8", "LF">>, <<"utf-8", "CRLF">>, <<"utf-8", "CR">>, <<"utf-8", "MIXED">> }

PathX == <<"x", ".py">>

PathY == <<"my", "SP", "y", ".txt">>

ValidEntries(p) ==
    {Entry(p, c, FALSE, m[1], m[2]) : c \in TextContents, m \in TextMetas}
    \cup {Entry(p, c, TRUE, "base64", "n/a") : c \in BinaryContents}

SecondEntries ==
    { Entry(PathY, <<"b", "LF">>, FALSE, "utf-8", "LF"),
      Entry(PathY, <<"A", "A", "=", "=">>, TRUE, "base64", "n/a") }

Manifests ==
    {<<e>> : e \in ValidEntries(PathX)}
    \cup {<<e, f>> : e \in ValidEntries(PathX), f \in SecondEntries}
    \cup {<<f, e>> : e \in ValidEntries(PathX), f \in SecondEntries}

\* ---- bundle text received from elsewhere: up to MaxBlocks blocks, each one
\* of the shapes below (well formed, degenerate path, header line missing,
\* prose, invalid eol).
MaxBlocks == 3

PMHeader(path, meta) ==
    <<"SEP", "LF", "#FILE:", "SP">> \o path \o <<"LF", "#META:", "SP">> \o meta
    \o <<"LF", "SEP", "LF">>

MFHeader(path, meta) ==
    <<"<!--FILE:", "SP">> \o path \o <<";", "SP">> \o meta \o <<"SP", "-->", "LF">>

MetaA == <<"encoding=utf-8", ";", "SP", "eol=LF", ";", "SP", "mode=text">>

MetaB == <<"encoding=utf-8", ";", "SP", "eol=CRLF", ";", "SP", "mode=text">>

\* a text block whose META line says eol=n/a
MetaN == <<"encoding=utf-8", ";", "SP", "eol=n/a", ";", "SP", "mode=text">>

BlockShapes ==
    {"xA", "xB", "yA", "dot", "empty", "dotSlash", "slash", "noMeta", "noFile", "prose",
     "badEol", "metaLine", "sepLine", "naEol"}

\* the shapes whose FILE line names a path that is no file: ".", blank, "./", "/"
DegenerateShapes == {"dot", "empty", "dotSlash", "slash"}

DegenerateShapePath(sh) ==
    CASE sh = "dot"      -> <<".">>
      [] sh = "empty"    -> <<>>
      [] sh = "dotSlash" -> <<".", "/">>
      [] sh = "slash"    -> <<"/">>

\* the well-formed shapes: path, payload and metadata each names
WellFormed == {"xA", "xB", "yA"}

ShapePath(sh) == IF sh = "yA" THEN PathY ELSE PathX

\* the shapes whose payload has a line that looks like a header line
PayloadShapes == {"metaLine", "sepLine"}

ShapeContent(sh) ==
    IF sh = "xB" THEN <<"b", "CR", "LF">>
    ELSE IF sh = "metaLine" THEN <<"a", "LF", "#META:", "SP", "mode=binary", "LF">>
    ELSE IF sh = "sepLine" THEN <<"a", "LF", "SEP", "LF", "b", "LF">>
    ELSE <<"a", "LF">>

ShapeEol(sh) == IF sh = "xB" THEN "CRLF" ELSE "LF"

ShapeMeta(sh) == IF sh = "xB" THEN MetaB ELSE MetaA

PMShapeText(sh) ==
    CASE sh \in WellFormed \cup PayloadShapes ->
            PMHeader(ShapePath(sh), ShapeMeta(sh)) \o ShapeContent(sh)
      [] sh \in DegenerateShapes ->
            PMHeader(DegenerateShapePath(sh), MetaA) \o <<"a", "LF">>
      [] sh = "noMeta" -> <<"SEP", "LF", "#FILE:", "SP", "n", "LF", "SEP", "LF", "a", "LF">>
      [] sh = "noFile" -> <<"SEP", "LF", "#META:", "SP">> \o MetaB
                          \o <<"LF", "SEP", "LF", "b", "LF">>
      [] sh = "prose"  -> <<"a", "SP", "a", "LF">>
      [] sh = "badEol" -> PMHeader(<<"z">>, <<"eol=lf">>) \o <<"a", "LF">>
      [] sh = "naEol"  -> PMHeader(<<"z">>, MetaN) \o <<"a", "LF">>

MFShapeText(sh) ==
    CASE sh \in WellFormed \cup PayloadShapes ->
            MFHeader(ShapePath(sh), ShapeMeta(sh)) \o <<"FENCE", "LF">>
            \o ShapeContent(sh) \o <<"LF", "FENCE", "LF", "LF">>
      [] sh \in DegenerateShapes ->
            MFHeader(DegenerateShapePath(sh), MetaA)
            \o <<"FENCE", "LF", "a", "LF", "LF", "FENCE", "LF", "LF">>
      [] sh = "noMeta" -> <<"<!--FILE:", "SP", "n", "SP", "-->", "LF",
                            "FENCE", "LF", "a", "LF", "LF", "FENCE", "LF", "LF">>
      [] sh = "noFile" -> <<"FENCE", "LF", "b", "LF", "LF", "FENCE", "LF", "LF">>
      [] sh = "prose"  -> <<"a", "SP", "a", "LF">>
      [] sh = "badEol" -> MFHeader(<<"z">>, <<"eol=lf">>)
                          \o <<"FENCE", "LF", "a", "LF", "LF", "FENCE", "LF", "LF">>
      [] sh = "naEol"  -> MFHeader(<<"z">>, MetaN)
                          \o <<"FENCE", "LF", "a", "LF", "LF", "FENCE", "LF", "LF">>

ShapeSeqs == SeqsUpTo(BlockShapes, MaxBlocks)

BundleText(profile, shapes) ==
    Flatten([i \in 1..Len(shapes) |->
                IF profile = "plain_marker" THEN PMShapeText(shapes[i])
                ELSE MFShapeText(shapes[i])])

CodecInit ==
    /\ codec \in ProfileNames
    /\ manifest \in Manifests \cup {<<>>}
    /\ bundle = <<>>
    /\ blocks = <<>>
    /\ decoded = NoResult
    /\ cphase = "new"

\* text = profile.format_manifest(manifest)
Format ==
    /\ cphase = "new"
    /\ LET r == FormatManifest(codec, manifest)
       IN  /\ bundle' = r.text
           /\ manifest' = r.entries
           /\ cphase' = IF r.status = "ok" THEN "encoded" ELSE "failed"
    /\ UNCHANGED <<codec, blocks, decoded>>
    /\ UNCHANGED <<extractVars, validatorVars, globVars, creatorVars, manifestVars, detectVars>>

\* the caller holds no manifest and reads bundle text written elsewhere
Receive ==
    /\ cphase = "new"
    /\ manifest = <<>>
    /\ \E shapes \in ShapeSeqs :
          /\ blocks' = shapes
          /\ bundle' = BundleText(codec, shapes)
    /\ cphase' = "received"
    /\ UNCHANGED <<codec, manifest, decoded>>
    /\ UNCHANGED <<extractVars, validatorVars, globVars, creatorVars, manifestVars, detectVars>>

\* manifest = profile.parse_stream(text)
Parse ==
    /\ cphase \in {"encoded", "received"}
    /\ decoded' = ParseStream(codec, bundle)
    /\ cphase' = IF cphase = "encoded" THEN "roundtrip" ELSE "decoded"
    /\ UNCHANGED <<codec, manifest, bundle, blocks>>
    /\ UNCHANGED <<extractVars, validatorVars, globVars, creatorVars, manifestVars, detectVars>>

CodecNext == Format \/ Receive \/ Parse

vars ==
    <<codecVars, extractVars, validatorVars, globVars, creatorVars, manifestVars, detectVars>>

\* the codec alone: the other parts of the program stay idle
CodecStart == CodecInit /\ ExtractIdle /\ ValidatorIdle /\ GlobIdle /\ CreatorIdle /\ ManifestIdle /\ DetectIdle

SpecCodec == CodecStart /\ [][CodecNext]_vars

----------------------------------------------------------------------------
(* Round trips and duplicate blocks.                                       *)

\* the outcome of a decode that reproduces the manifest that was encoded
Reproduced == decoded = [status |-> "ok", entries |-> manifest]

\* C2: plain_marker round trip: for every manifest of valid entries (text or
\* binary, content empty or ending in zero, one or several newlines, any EOL
\* style) parse_stream(format_manifest(m)) has the entries of m, field by
\* field and in the same order.
C2_MarkerRoundTrip ==
    (cphase = "roundtrip" /\ codec = "plain_marker" /\ manifest # <<>>) => Reproduced

\* C3: md_fence round trip: for every manifest of valid entries (text, binary,
\* any EOL style, paths with blanks, content with lines that look like a fence
\* or a FILE comment) parse_stream(format_manifest(m)) has the entries of m,
\* field by field and in the same order.
C3_FenceRoundTrip ==
    (cphase = "roundtrip" /\ codec = "md_fence" /\ manifest # <<>>) => Reproduced

\* the blocks of the received text are all well formed
AllWellFormed == \A i \in 1..Len(blocks) : blocks[i] \in WellFormed

\* some path is named by two blocks of the received text
SomePathTwice ==
    \E i, j \in 1..Len(blocks) : i < j /\ ShapePath(blocks[i]) = ShapePath(blocks[j])

\* the entry a well-formed block describes
ShapeEntry(sh) == Entry(ShapePath(sh), ShapeContent(sh), FALSE, "utf-8", ShapeEol(sh))

\* every path named in the text has exactly one decoded entry, and it is the
\* entry of the last block naming that path
LastBlockWins ==
    /\ decoded.status = "ok"
    /\ \A i \in 1..Len(blocks) :
          LET final == CHOOSE j \in i..Len(blocks) :
                        /\ ShapePath(blocks[j]) = ShapePath(blocks[i])
                        /\ \A k \in (j + 1)..Len(blocks) :
                              ShapePath(blocks[k]) # ShapePath(blocks[i])
              hits == {n \in 1..Len(decoded.entries) :
                          decoded.entries[n].path = ShapePath(blocks[i])}
          IN  /\ Cardinality(hits) = 1
              /\ \A n \in hits : decoded.entries[n] = ShapeEntry(blocks[final])

\* C10: duplicate blocks on decode, both profiles: when the text holds several
\* blocks naming the same path, parse_stream succeeds and returns exactly one
\* entry for that path, with the content and metadata of the last such block.
C10_DuplicateLastWins ==
    (cphase = "decoded" /\ AllWellFormed /\ SomePathTwice) => LastBlockWins

\* the blocks of the received text are well formed or name a degenerate path,
\* one at least names a degenerate path, and no path is named twice
SomeDegenerate ==
    /\ \A i \in 1..Len(blocks) : blocks[i] \in WellFormed \cup DegenerateShapes
    /\ \E i \in 1..Len(blocks) : blocks[i] \in DegenerateShapes
    /\ ~SomePathTwice

\* the entries of the well-formed blocks of the text, in the order of the text
WellFormedEntries ==
    LET kept == SelectSeq(blocks, LAMBDA sh : sh \in WellFormed)
    IN  [i \in 1..Len(kept) |-> ShapeEntry(kept[i])]

\* C11: degenerate paths on decode, both profiles: a block whose FILE line
\* names an empty path, ".", "./" or "/" is skipped without an error; no
\* decoded entry has such a path, and the other blocks are returned.
C11_DegenerateSkipped ==
    (cphase = "decoded" /\ SomeDegenerate) =>
        /\ decoded.status # "ValueError"
        /\ \A n \in 1..Len(decoded.entries) : decoded.entries[n].path \notin DegeneratePaths
        /\ WellFormedEntries # <<>> =>
              decoded = [status |-> "ok", entries |-> WellFormedEntries]

\* C12: the trailing-newline rule of plain_marker: for a text entry whose
\* content does not end in a newline the block carries trailing=false, does
\* not end in a newline, and decodes to the same content and eol_style; for
\* any other text entry the block ends in the newline of the content.
C12_TrailingNewlineSymmetry ==
    (cphase = "roundtrip" /\ codec = "plain_marker" /\ Len(manifest) = 1
     /\ ~manifest[1].is_binary) =>
        LET content == manifest[1].content
        IN  IF content = <<>> \/ Last(content) # "LF"
            THEN /\ \E i \in 1..Len(bundle) : bundle[i] = MetaTok("trailing", "false")
                 /\ Last(bundle) # "LF"
                 /\ decoded.status = "ok"
                 /\ Len(decoded.entries) = 1
                 /\ decoded.entries[1].content = content
                 /\ decoded.entries[1].eol_style = manifest[1].eol_style
            ELSE EndsWith(bundle, content)

\* the shapes whose header lacks its FILE line or its META line
MalformedShapes == {"noMeta", "noFile"}

\* the text has a block with a header line missing among well-formed blocks
\* of different paths
SomeMalformed ==
    /\ \A i \in 1..Len(blocks) : blocks[i] \in WellFormed \cup MalformedShapes
    /\ \E i \in 1..Len(blocks) : blocks[i] \in MalformedShapes
    /\ \A i, j \in 1..Len(blocks) :
          (i < j /\ blocks[i] \in WellFormed /\ blocks[j] \in WellFormed) =>
              ShapePath(blocks[i]) # ShapePath(blocks[j])

\* C20: a block whose header lacks its FILE line or its META line is dropped
\* and the well-formed blocks are returned; when no block is left
\* parse_stream raises ProfileParseError and hands back no entries.
C20_MalformedDropped ==
    (cphase = "decoded" /\ SomeMalformed) =>
        IF WellFormedEntries # <<>>
        THEN decoded = [status |-> "ok", entries |-> WellFormedEntries]
        ELSE decoded = [status |-> "ProfileParseError", entries |-> <<>>]

\* the text has a block whose payload has a line that looks like a separator
\* or a META line, and no path is named twice
SomeHeaderLikePayload ==
    /\ \A i \in 1..Len(blocks) : blocks[i] \in WellFormed \cup PayloadShapes
    /\ \E i \in 1..Len(blocks) : blocks[i] \in PayloadShapes
    /\ ~SomePathTwice

\* C26: plain_marker parse_stream reads the header lines of a block only: a
\* payload line that looks like a separator or like a META line comes back
\* as content, and encoding, eol_style and mode are those of the header.
C26_MarkerPayloadVerbatim ==
    (cphase = "decoded" /\ codec = "plain_marker" /\ SomeHeaderLikePayload) =>
        decoded = [status |-> "ok",
                   entries |-> [i \in 1..Len(blocks) |-> ShapeEntry(blocks[i])]]

----------------------------------------------------------------------------
(* Paths on disk (pathlib).  An absolute path is the sequence of its       *)
(* components below the filesystem root; a component is <<stem, suffix>>   *)
(* (Path.stem, Path.suffix) and the two together spell its name.           *)

RECURSIVE Concat(_)
Concat(toks) == IF toks = <<>> THEN "" ELSE Head(toks) \o Concat(Tail(toks))

\* the tokens of the alphabet that are a file name suffix
Suffixes == {".txt", ".py", ".bin"}

\* Path.stem and Path.suffix of the component spelled by toks
Name(toks) ==
    IF Len(toks) >= 2 /\ Last(toks) \in Suffixes
    THEN <<Concat(Front(toks)), Last(toks)>>
    ELSE <<Concat(toks), "">>

\* str.split("/")
RECURSIVE SplitPath(_, _)
SplitPath(p, cur) ==
    IF p = <<>> THEN <<cur>>
    ELSE IF Head(p) = "/" THEN <<cur>> \o SplitPath(Tail(p), <<>>)
    ELSE SplitPath(Tail(p), Append(cur, Head(p)))

\* PurePosixPath(p).parts of a relative p: empty and "." components are dropped
PurePosixParts(p) ==
    SelectSeq(SplitPath(p, <<>>), LAMBDA seg : seg # <<>> /\ Concat(seg) # ".")

\* str.lstrip("/")
RECURSIVE LStripSlash(_)
LStripSlash(p) == IF p # <<>> /\ Head(p) = "/" THEN LStripSlash(Tail(p)) ELSE p

\* (abs / parts).resolve() on a disk without symbolic links: ".." drops the
\* last component and stays at the filesystem root
RECURSIVE Resolve(_, _)
Resolve(abs, parts) ==
    IF parts = <<>> THEN abs
    ELSE IF Concat(Head(parts)) = ".."
         THEN Resolve(IF abs = <<>> THEN <<>> ELSE Front(abs), Tail(parts))
         ELSE Resolve(Append(abs, Name(Head(parts))), Tail(parts))

\* Path.parent
Parent(p) == IF p = <<>> THEN <<>> ELSE Front(p)

\* the path itself and every ancestor of it
Prefixes(p) == {SubSeq(p, 1, k) : k \in 0..Len(p)}

\* target.relative_to(base) does not raise
IsRelativeTo(target, base) ==
    Len(target) >= Len(base) /\ SubSeq(target, 1, Len(base)) = base

----------------------------------------------------------------------------
(* The disk: regular files with their bytes, and directories.              *)

Exists(d, p) == p \in DOMAIN d.files \/ p \in d.dirs

\* Path.mkdir(parents=True, exist_ok=True) raises when the path or one of its
\* ancestors is a regular file
MkdirOk(d, p) == Prefixes(p) \cap DOMAIN d.files = {}

Mkdir(d, p) == [d EXCEPT !.dirs = @ \cup Prefixes(p)]

\* open(p, "w") succeeds: p is no directory and its parent is one
OpenOk(d, p) == p \notin d.dirs /\ Parent(p) \in d.dirs

WriteFile(d, p, bytes) == [d EXCEPT !.files = (p :> bytes) @@ @]

----------------------------------------------------------------------------
(* Bytes of text and of base64.                                            *)

\* str.encode("utf-8") per character; an atom encodes to one number above
\* 255 that stands for its bytes
Utf8Table ==
    << <<"LF", 10>>, <<"CR", 13>>, <<"SP", 32>>, <<"a", 97>>, <<"b", 98>>,
       <<"n", 110>>, <<"m", 109>>, <<"o", 111>>, <<".", 46>>, <<"/", 47>>,
       <<"=", 61>>, <<"A", 65>>, <<"C", 67>>, <<"E", 69>>, <<"f", 102>>,
       <<"d", 100>>, <<"e", 101>>, <<"g", 103>>, <<"k", 107>>, <<"c", 99>>,
       <<"x", 120>>, <<"y", 121>>, <<"my", 301>>,
       <<"..", 302>>, <<".txt", 303>>, <<".py", 304>>, <<".bin", 305>>,
       <<"SEP", 306>>, <<"FENCE", 307>>, <<"#FILE:", 308>>, <<"#META:", 309>>,
       <<"RULE76", 310>>, <<"#SOURCEFILE:", 311>>, <<"#RELPATH:", 312>>,
       <<"#PROJECT..FIXES", 313>>, <<"f_1", 314>> >>

EncodeChar(c) ==
    IF \E i \in 1..Len(Utf8Table) : Utf8Table[i][1] = c
    THEN Utf8Table[CHOOSE i \in 1..Len(Utf8Table) : Utf8Table[i][1] = c][2]
    ELSE 63

Utf8Encode(text) == [i \in 1..Len(text) |-> EncodeChar(text[i])]

B64Alphabet ==
    << "A", "B", "C", "D", "E", "F", "G", "H", "I", "J", "K", "L", "M", "N", "O", "P",
       "Q", "R", "S", "T", "U", "V", "W", "X", "Y", "Z", "a", "b", "c", "d", "e", "f",
       "g", "h", "i", "j", "k", "l", "m", "n", "o", "p", "q", "r", "s", "t", "u", "v",
       "w", "x", "y", "z", "0", "1", "2", "3", "4", "5", "6", "7", "8", "9", "+", "/" >>

B64Chars == {B64Alphabet[i] : i \in 1..64}

B64Value(c) ==
    IF c = "=" THEN 0 ELSE (CHOOSE i \in 1..64 : B64Alphabet[i] = c) - 1

\* number of "=" that end s
B64Pad(s) ==
    IF s # <<>> /\ Last(s) = "="
    THEN (IF Len(s) >= 2 /\ s[Len(s) - 1] = "=" THEN 2 ELSE 1)
    ELSE 0

\* the characters b64decode keeps: it discards what is not of the alphabet
B64Kept(s) == SelectSeq(s, LAMBDA c : c \in B64Chars \cup {"="})

\* base64.b64decode(s) does not raise binascii.Error: whole quads, padding
\* only at the end (the inputs of the model have no "=" anywhere else)
B64Ok(s) ==
    LET k == B64Kept(s)
    IN  /\ Len(k) % 4 = 0
        /\ \A i \in 1..(Len(k) - B64Pad(k)) : k[i] # "="

\* the three bytes of one quad
B64Quad(q) ==
    LET n == B64Value(q[1]) * 262144 + B64Value(q[2]) * 4096
             + B64Value(q[3]) * 64 + B64Value(q[4])
    IN  << n \div 65536, (n \div 256) % 256, n % 256 >>

B64Decode(s) ==
    LET k   == B64Kept(s)
        all == Flatten([g \in 1..(Len(k) \div 4) |->
                            B64Quad(SubSeq(k, 4 * g - 3, 4 * g))])
    IN  SubSeq(all, 1, Len(all) - B64Pad(k))

----------------------------------------------------------------------------
(* BundleWriter (writer.py)                                                *)

OverwritePolicy == {"prompt", "skip", "rename", "overwrite"}

\* self.output_dir, resolved: the extraction root
Root == << <<"out", "">> >>

\* the fields of the BundleWriter
Self ==
    [overwrite_policy |-> overwrite_policy, dry_run |-> dry_run,
     add_headers |-> add_headers, files_written |-> files_written,
     files_skipped |-> files_skipped, files_renamed |-> files_renamed,
     pending_writes |-> pending_writes]

\* _resolve_output_path
ResolveOutputPath(path, output_dir) ==
    Resolve(output_dir, PurePosixParts(LStripSlash(NormSep(path))))

\* _validate_path does not raise PathTraversalError
ValidatePathOk(target_path, base_dir) == IsRelativeTo(target_path, base_dir)

\* parent / f"{stem}_{counter}{suffix}"
Candidate(original, counter) ==
    IF original = <<>> THEN << <<"_" \o ToString(counter), "">> >>
    ELSE Append(Parent(original),
                <<Last(original)[1] \o "_" \o ToString(counter), Last(original)[2]>>)

\* the test of the loop without the targets of this run
CandidateFreeOnDisk(d, pending, original, counter) ==
    ~Exists(d, Candidate(original, counter))

\* the test of the loop of _get_renamed_path
CandidateFree(d, pending, original, counter) ==
    /\ ~Exists(d, Candidate(original, counter))
    /\ Candidate(original, counter) \notin pending

\* a renaming that takes the first candidate without looking
GetRenamedPathFirst(d, pending, original) == Candidate(original, 1)

\* _get_renamed_path: the loop counts up from 1 to the first free candidate
GetRenamedPath(d, pending, original) ==
    LET most == Cardinality(DOMAIN d.files \cup d.dirs \cup pending) + 1
        counter == CHOOSE n \in 1..most :
                      /\ CandidateFree(d, pending, original, n)
                      /\ \A k \in 1..(n - 1) : ~CandidateFree(d, pending, original, k)
    IN  Candidate(original, counter)

\* Path(entry.path).name
PathName(path) ==
    LET parts == PurePosixParts(path)
    IN  IF parts = <<>> THEN <<>> ELSE Last(parts)

\* _build_repo_header_block: the rule, SOURCEFILE, RELPATH, the fixed lines
\* PROJECT to FIXES, the rule, each ended by a newline
BuildRepoHeaderBlock(entry) ==
    <<"RULE76", "LF", "#SOURCEFILE:", "SP">> \o PathName(entry.path)
    \o <<"LF", "#RELPATH:", "SP">> \o NormSep(entry.path)
    \o <<"LF", "#PROJECT..FIXES", "LF", "RULE76", "LF">>

\* codecs open() knows, and the byte order mark of utf-8-sig
KnownEncodings == {"utf-8", "UTF-8", "utf-8-sig"}

BomVariants == {"utf-8-bom", "utf8-bom", "utf-8_sig"}

WriteEncoding(entry) ==
    LET encoding == IF entry.encoding = "" \/ entry.encoding = "auto" THEN "utf-8"
                    ELSE entry.encoding
    IN  IF encoding \in BomVariants THEN "utf-8-sig" ELSE encoding

\* the bytes of a write that translates every LF of the text to CR LF
FinalBytesTranslated(entry, header_enabled) ==
    IF entry.is_binary THEN B64Decode(Strip(entry.content))
    ELSE Utf8Encode(Flatten([i \in 1..Len(entry.content) |->
                                IF entry.content[i] = "LF" THEN <<"CR", "LF">>
                                ELSE <<entry.content[i]>>]))

\* the bytes target.write_text / target.write_bytes puts on disk
FinalBytes(entry, header_enabled) ==
    IF entry.is_binary THEN B64Decode(Strip(entry.content))
    ELSE (IF WriteEncoding(entry) = "utf-8-sig" THEN <<239, 187, 191>> ELSE <<>>)
         \o Utf8Encode((IF header_enabled THEN BuildRepoHeaderBlock(entry) ELSE <<>>)
                       \o entry.content)

\* the existence test without the targets of this run
FileExistsOnDiskOnly(w, d, target) == Exists(d, target)

\* file_exists = target.exists() or target in self.pending_writes
FileExists(w, d, target) == Exists(d, target) \/ target \in w.pending_writes

\* a skip that is not recorded
RecordNothing(w, target) == w

\* self.files_skipped.append(target)
RecordSkipped(w, target) == [w EXCEPT !.files_skipped = Append(@, target)]

\* the handler of extract_manifest raises the error again
Reraised(status, policy) == status = "OverwriteError" /\ policy = "prompt"

\* a writer that writes in a dry run too
WritesAlways(w) == FALSE

\* the write is left out: if not self.dry_run guards it
SkipsWrite(w) == w.dry_run

\* write_entry(entry, target, apply_headers=self.add_headers): what it returns
\* or raises (status), the target it ends with, whether it found the target
\* taken, and the writer and the disk it leaves
WriteEntry(w, d, entry, output_path) ==
    LET parent_ok   == w.dry_run \/ MkdirOk(d, Parent(output_path))
        d1          == IF w.dry_run \/ ~parent_ok THEN d ELSE Mkdir(d, Parent(output_path))
        file_exists == FileExists(w, d1, output_path)
        renaming    == file_exists /\ w.overwrite_policy = "rename"
        target      == IF renaming THEN GetRenamedPath(d1, w.pending_writes, output_path)
                       ELSE output_path
        w1          == IF renaming
                       THEN [w EXCEPT !.files_renamed = (output_path :> target) @@ @]
                       ELSE w
        w2          == [w1 EXCEPT !.files_written = Append(@, target),
                                  !.pending_writes = @ \cup {target}]
        out(st, ww, dd) == [status |-> st, target |-> target, file_exists |-> file_exists,
                            w |-> ww, d |-> dd]
    IN  IF ~parent_ok THEN
            [status |-> "Exception", target |-> output_path, file_exists |-> FALSE,
             w |-> w, d |-> d]
        ELSE IF file_exists /\ w.overwrite_policy = "prompt" THEN
            out("OverwriteError", w, d1)
        ELSE IF file_exists /\ w.overwrite_policy = "skip" THEN
            out("skipped", RecordSkipped(w, output_path), d1)
        ELSE IF entry.is_binary /\ ~B64Ok(Strip(entry.content)) THEN
            out("BundleWriteError", w1, d1)
        ELSE IF SkipsWrite(w) THEN
            out("processed", w2, d1)
        ELSE IF ~OpenOk(d1, target) THEN
            out("BundleWriteError", w1, d1)
        ELSE IF ~entry.is_binary /\ WriteEncoding(entry) \notin KnownEncodings THEN
            out("BundleWriteError", w1, WriteFile(d1, target, <<>>))
        ELSE
            out("processed", w2, WriteFile(d1, target, FinalBytes(entry, w.add_headers)))

\* ---- bounded inputs: the entries a manifest is made of
MaxEntries == 2

OnDisk == <<111>>

ExtractEntries ==
    { Entry(<<"f", ".txt">>, <<"n", "LF">>, FALSE, "utf-8", "LF"),
      Entry(<<"/", "f", ".txt">>, <<"m">>, FALSE, "utf-8-bom", "LF"),
      Entry(<<"..", "/", "e", ".txt">>, <<"n">>, FALSE, "utf-8", "LF"),
      Entry(<<"d", "/", "..">>, <<"n">>, FALSE, "utf-8", "LF"),
      Entry(<<"d", "/", "g", ".txt">>, <<"n", "CR", "LF", "m", "LF", "CR">>, FALSE, "utf-8",
            "MIXED"),
      Entry(<<"k", ".txt">>, <<"n">>, FALSE, "bogus", "LF"),
      Entry(<<"f_1", ".txt">>, <<"m">>, FALSE, "utf-8", "LF"),
      Entry(<<"b", ".bin">>, <<"A", "A", "E", "C">>, TRUE, "base64", "n/a"),
      Entry(<<"c", ".bin">>, <<"A">>, TRUE, "base64", "n/a") }

\* BundleManifest refuses two entries with one path
ExtractManifests ==
    {m \in SeqsUpTo(ExtractEntries, MaxEntries) : ~HasDuplicatePaths(m)}

\* the disk before the run: the root may be missing, and f.txt, f_1.txt and
\* a regular file d may be in it
InitialFiles ==
    { {},
      { Append(Root, <<"f", ".txt">>) },
      { Append(Root, <<"f", ".txt">>), Append(Root, <<"f_1", ".txt">>) },
      { Append(Root, <<"f", ".txt">>), Append(Root, <<"d", "">>) } }

InitialDisks ==
    { [files |-> NoFiles, dirs |-> {<<>>}] }
    \cup { [files |-> [p \in P |-> OnDisk], dirs |-> {<<>>, Root}] : P \in InitialFiles }

ExtractInit ==
    /\ overwrite_policy \in OverwritePolicy
    /\ dry_run \in BOOLEAN
    /\ add_headers \in BOOLEAN
    /\ files_written = <<>>
    /\ files_skipped = <<>>
    /\ files_renamed = EmptyMap
    /\ pending_writes = {}
    /\ disk \in InitialDisks
    /\ run_manifest = <<>>
    /\ position = 0
    /\ stats = NoStats
    /\ last = NoLast
    /\ disk0 = disk
    /\ run_no = 0
    /\ xphase = "idle"

\* an extract_manifest that keeps the lists and sets of the run before
ExtractManifestNoReset(m) ==
    /\ run_manifest' = m
    /\ disk0' = disk
    /\ run_no' = run_no + 1
    /\ IF dry_run THEN disk' = disk /\ xphase' = "running"
       ELSE IF MkdirOk(disk, Root) THEN disk' = Mkdir(disk, Root) /\ xphase' = "running"
       ELSE disk' = disk /\ xphase' = "raised"
    /\ position' = 0
    /\ stats' = NoStats
    /\ last' = NoLast
    /\ UNCHANGED <<writerVars>>
    /\ UNCHANGED <<codecVars, validatorVars, globVars, creatorVars, manifestVars, detectVars>>

\* extract_manifest(manifest) up to its loop: the state is reset and the
\* output directory is made
ExtractManifestOf(m) ==
    /\ run_manifest' = m
    /\ files_written' = <<>>
    /\ files_skipped' = <<>>
    /\ files_renamed' = EmptyMap
    /\ pending_writes' = {}
    /\ disk0' = disk
    /\ run_no' = run_no + 1
    /\ IF dry_run THEN disk' = disk /\ xphase' = "running"
       ELSE IF MkdirOk(disk, Root) THEN disk' = Mkdir(disk, Root) /\ xphase' = "running"
       ELSE disk' = disk /\ xphase' = "raised"
    /\ position' = 0
    /\ stats' = NoStats
    /\ last' = NoLast
    /\ UNCHANGED <<overwrite_policy, dry_run, add_headers>>
    /\ UNCHANGED <<codecVars, validatorVars, globVars, creatorVars, manifestVars, detectVars>>

\* writer.extract_manifest(manifest, output_dir) with a manifest built by hand
ExtractManifest ==
    /\ xphase = "idle"
    /\ \E m \in ExtractManifests : ExtractManifestOf(m)

\* a loop that counts a skipped entry as processed
TallySkippedAsProcessed(counts, status) ==
    IF status \in {"processed", "skipped"} THEN [counts EXCEPT !.processed = @ + 1]
    ELSE [counts EXCEPT !.errors = @ + 1]

\* the counting of the loop: the status write_entry returned, or an exception
Tally(counts, status) ==
    IF status = "processed" THEN [counts EXCEPT !.processed = @ + 1]
    ELSE IF status = "skipped" THEN [counts EXCEPT !.skipped = @ + 1]
    ELSE [counts EXCEPT !.errors = @ + 1]

\* one iteration of the loop of extract_manifest
ProcessEntry ==
    /\ xphase = "running"
    /\ position < Len(run_manifest)
    /\ LET entry       == run_manifest[position + 1]
           target_path == ResolveOutputPath(entry.path, Root)
           r           == WriteEntry(Self, disk, entry, target_path)
           seen(st, ex, wr) ==
               [path |-> entry.path, target |-> target_path, file_exists |-> ex,
                status |-> st, written |-> wr, before |-> disk, pending |-> pending_writes]
       IN  IF ~ValidatePathOk(target_path, Root) THEN
               /\ stats' = [stats EXCEPT !.errors = @ + 1]
               /\ last' = seen("PathTraversalError", FALSE, <<>>)
               /\ xphase' = "running"
               /\ UNCHANGED <<files_written, files_skipped, files_renamed,
                              pending_writes, disk>>
           ELSE
               /\ files_written' = r.w.files_written
               /\ files_skipped' = r.w.files_skipped
               /\ files_renamed' = r.w.files_renamed
               /\ pending_writes' = r.w.pending_writes
               /\ disk' = r.d
               /\ stats' = Tally(stats, r.status)
               /\ last' = seen(r.status, r.file_exists,
                               IF r.status = "processed" THEN r.target ELSE <<>>)
               /\ xphase' = IF Reraised(r.status, overwrite_policy) THEN "raised"
                            ELSE "running"
    /\ position' = position + 1
    /\ UNCHANGED <<overwrite_policy, dry_run, add_headers, run_manifest, disk0, run_no>>
    /\ UNCHANGED <<codecVars, validatorVars, globVars, creatorVars, manifestVars, detectVars>>

\* return stats
ReturnStats ==
    /\ xphase = "running"
    /\ position = Len(run_manifest)
    /\ xphase' = "returned"
    /\ UNCHANGED <<writerVars, disk, run_manifest, position, stats, last, disk0, run_no>>
    /\ UNCHANGED <<codecVars, validatorVars, globVars, creatorVars, manifestVars, detectVars>>

ExtractNext == ExtractManifest \/ ProcessEntry \/ ReturnStats

\* the extractor alone
ExtractStart == ExtractInit /\ CodecIdle /\ ValidatorIdle /\ GlobIdle /\ CreatorIdle /\ ManifestIdle /\ DetectIdle

SpecExtract == ExtractStart /\ [][ExtractNext]_vars

----------------------------------------------------------------------------
(* PathValidator (validators.py)                                           *)

\* self.base_path, resolved, and the working directory of the process
BasePath == << <<"w", "">>, <<"a", "">> >>

Cwd == << <<"cwd", "">> >>

\* the first character of str(Path(path)): Path drops empty and "."
\* components, and spells the path without components "."
PathStrHead(path) ==
    IF path # <<>> /\ Head(path) = "/" THEN "/"
    ELSE IF PurePosixParts(path) = <<>> THEN "."
    ELSE Head(Head(PurePosixParts(path)))

\* path.is_absolute() only
IsAbsolutePosix(path) == PathStrHead(path) = "/"

\* is_absolute = path.is_absolute() or path_str.startswith(("/", "\\"))
IsAbsolute(path) == PathStrHead(path) \in {"/", "BS"}

\* Path.resolve() raises ValueError (embedded null byte)
ResolveRaises(path) == \E i \in 1..Len(path) : path[i] = "NUL"

\* path.resolve() of the path as given: against the working directory when
\* it does not start at the filesystem root
ResolveGiven(path) ==
    Resolve(IF path # <<>> /\ Head(path) = "/" THEN <<>> ELSE Cwd, PurePosixParts(path))

\* validate_path(path, allow_absolute=allow): [status, resolved].  When
\* resolve() raises in the relative branch the handler builds a
\* PathTraversalError without raising it, and the use of the unbound local
\* below raises UnboundLocalError.
ValidatePath(path, allow) ==
    IF IsAbsolute(path) THEN
        (IF ~allow THEN [status |-> "PathTraversalError", resolved |-> <<>>]
         ELSE IF ResolveRaises(path) THEN [status |-> "ValueError", resolved |-> <<>>]
         ELSE [status |-> "returned", resolved |-> ResolveGiven(path)])
    ELSE IF ResolveRaises(path) THEN [status |-> "UnboundLocalError", resolved |-> <<>>]
    ELSE IF ~IsRelativeTo(Resolve(BasePath, PurePosixParts(path)), BasePath)
         THEN [status |-> "PathTraversalError", resolved |-> <<>>]
    ELSE [status |-> "returned", resolved |-> Resolve(BasePath, PurePosixParts(path))]

\* is_safe_path(path): True, False, or the exception that is no
\* PathTraversalError
IsSafePath(path) ==
    LET r == ValidatePath(path, FALSE)
    IN  IF r.status = "returned" THEN [status |-> "True", resolved |-> <<>>]
        ELSE IF r.status = "PathTraversalError" THEN [status |-> "False", resolved |-> <<>>]
        ELSE [status |-> r.status, resolved |-> <<>>]

\* ---- bounded inputs
MaxPathLen == 4

PathChars == {"/", "BS", "..", ".", "a", "b", "NUL"}

\* ../../etc/passwd, /etc/passwd and sub/file.txt
EscapingPath == <<"..", "/", "..", "/", "etc", "/", "passwd">>

AbsolutePath == <<"/", "etc", "/", "passwd">>

SubFilePath == <<"sub", "/", "file", ".txt">>

CandidatePaths ==
    SeqsUpTo(PathChars, MaxPathLen) \cup {EscapingPath, AbsolutePath, SubFilePath}

ValidatorInit ==
    /\ vpath \in CandidatePaths
    /\ allow_absolute \in BOOLEAN
    /\ verdict = NoVerdict
    /\ vphase = "new"

\* validator.validate_path(path, allow_absolute=...)
ValidatePathCall ==
    /\ vphase = "new"
    /\ verdict' = ValidatePath(vpath, allow_absolute)
    /\ vphase' = "validated"
    /\ UNCHANGED <<vpath, allow_absolute>>
    /\ UNCHANGED <<codecVars, extractVars, globVars, creatorVars, manifestVars, detectVars>>

\* validator.is_safe_path(path)
IsSafePathCall ==
    /\ vphase = "new"
    /\ verdict' = IsSafePath(vpath)
    /\ vphase' = "asked"
    /\ UNCHANGED <<vpath, allow_absolute>>
    /\ UNCHANGED <<codecVars, extractVars, globVars, creatorVars, manifestVars, detectVars>>

ValidatorNext == ValidatePathCall \/ IsSafePathCall

\* the validator alone
ValidatorStart == ValidatorInit /\ CodecIdle /\ ExtractIdle /\ GlobIdle /\ CreatorIdle /\ ManifestIdle /\ DetectIdle

SpecValidate == ValidatorStart /\ [][ValidatorNext]_vars

----------------------------------------------------------------------------
(* Path safety.                                                            *)

\* the path starts with a separator of either convention
StartsWithSeparator(path) == path # <<>> /\ Head(path) \in {"/", "BS"}

----------------------------------------------------------------------------
(* GlobFilter (validators.py) over PurePosixPath.match                     *)
(* A call returns "True" or "False" or raises: the status "ValueError" is  *)
(* the ValueError("empty pattern") of PurePosixPath.match.                 *)

\* the path or pattern starts at the filesystem root
PosixRoot(p) == p # <<>> /\ Head(p) = "/"

\* PurePosixPath(p).parts: the root, then the components
CParts(p) == (IF PosixRoot(p) THEN << <<"/">> >> ELSE <<>>) \o PurePosixParts(p)

\* fnmatch.fnmatchcase(name, pat) on one component: a run of stars matches
\* any run of characters, every other character matches itself
RECURSIVE FnMatch(_, _)
FnMatch(name, pat) ==
    IF pat = <<>> THEN name = <<>>
    ELSE IF Head(pat) \in {"*", "**"}
         THEN FnMatch(name, Tail(pat)) \/ (name # <<>> /\ FnMatch(Tail(name), pat))
    ELSE name # <<>> /\ Head(name) = Head(pat) /\ FnMatch(Tail(name), Tail(pat))

\* PurePosixPath(p).match(pat): components are compared from the right
PathMatch(p, pat) ==
    LET parts     == CParts(p)
        pat_parts == CParts(pat)
        rest      == IF PosixRoot(pat) THEN Tail(pat_parts) ELSE pat_parts
    IN  IF pat_parts = <<>> THEN "ValueError"
        ELSE IF PosixRoot(pat) /\ ~PosixRoot(p) THEN "False"
        ELSE IF PosixRoot(pat) /\ Len(pat_parts) # Len(parts) THEN "False"
        ELSE IF ~PosixRoot(pat) /\ Len(pat_parts) > Len(parts) THEN "False"
        ELSE IF \A k \in 1..Len(rest) :
                    FnMatch(parts[Len(parts) - k + 1], rest[Len(rest) - k + 1])
             THEN "True" ELSE "False"

\* "/**/" in posix_pat
RECURSIVE HasGlobstarInside(_)
HasGlobstarInside(pat) ==
    /\ Len(pat) >= 3
    /\ \/ SubSeq(pat, 1, 3) = <<"/", "**", "/">>
       \/ HasGlobstarInside(Tail(pat))

\* posix_pat.replace("/**/", "/")
RECURSIVE CollapseGlobstar(_)
CollapseGlobstar(pat) ==
    IF Len(pat) < 3 THEN pat
    ELSE IF SubSeq(pat, 1, 3) = <<"/", "**", "/">>
         THEN <<"/">> \o CollapseGlobstar(SubSeq(pat, 4, Len(pat)))
    ELSE <<Head(pat)>> \o CollapseGlobstar(Tail(pat))

\* the three tries _match_any makes with one pattern
MatchOne(p, pat) ==
    LET posix_pat == NormSep(pat)
        normal    == PathMatch(p, posix_pat)
        collapsed == IF HasGlobstarInside(posix_pat)
                     THEN PathMatch(p, CollapseGlobstar(posix_pat)) ELSE "False"
        unrooted  == IF Len(posix_pat) >= 2 /\ SubSeq(posix_pat, 1, 2) = <<"**", "/">>
                     THEN PathMatch(p, SubSeq(posix_pat, 3, Len(posix_pat))) ELSE "False"
    IN  IF normal # "False" THEN normal
        ELSE IF collapsed # "False" THEN collapsed
        ELSE unrooted

RECURSIVE MatchLoop(_, _)
MatchLoop(p, patterns) ==
    IF patterns = <<>> THEN "False"
    ELSE LET r == MatchOne(p, Head(patterns))
         IN  IF r # "False" THEN r ELSE MatchLoop(p, Tail(patterns))

\* _match_any(path_str, patterns)
MatchAny(path_str, patterns) ==
    IF path_str = <<>> THEN "False" ELSE MatchLoop(NormSep(path_str), patterns)

\* allow_patterns of a filter built with allow unset
AllowAll == << <<"**", "/", "*">> >>

\* the allow_patterns argument of the constructor: None, or a list
Unset == [given |-> FALSE, patterns |-> <<>>]

Given(patterns) == [given |-> TRUE, patterns |-> patterns]

\* self.allow_patterns as __init__ sets it
AllowPatterns(arg) == IF ~arg.given THEN AllowAll ELSE arg.patterns

\* should_include with the allow list asked first
ShouldIncludeAllowFirst(allow, deny, path) ==
    IF path = <<>> \/ Strip(path) = <<>> THEN "False"
    ELSE IF allow = AllowAll THEN "True"
    ELSE IF allow = <<>> THEN "False"
    ELSE MatchAny(path, allow)

\* should_include(path)
ShouldInclude(allow, deny, path) ==
    IF path = <<>> \/ Strip(path) = <<>> THEN "False"
    ELSE LET denied == IF deny # <<>> THEN MatchAny(path, deny) ELSE "False"
         IN  IF denied = "True" THEN "False"
             ELSE IF denied = "ValueError" THEN "ValueError"
             ELSE IF allow = AllowAll THEN "True"
             ELSE IF allow = <<>> THEN "False"
             ELSE MatchAny(path, allow)

\* Path.name, and the tokens of a path made of the given components
LastName(p) == IF PurePosixParts(p) = <<>> THEN <<>> ELSE Last(PurePosixParts(p))

\* p.relative_to(base) does not raise
IsUnder(p, base) ==
    /\ Len(CParts(p)) >= Len(CParts(base))
    /\ SubSeq(CParts(p), 1, Len(CParts(base))) = CParts(base)

\* p.relative_to(base).as_posix()
RelativeTo(p, base) ==
    LET rest == SubSeq(CParts(p), Len(CParts(base)) + 1, Len(CParts(p)))
    IN  IF rest = <<>> THEN <<".">> ELSE Join(<<"/">>, rest)

\* the strings filter_paths tries for one path
Candidates(p, base) ==
    IF base = <<>> THEN <<p, LastName(p)>>
    ELSE IF IsUnder(p, base)
         THEN <<RelativeTo(p, base), LastName(base) \o <<"/">> \o RelativeTo(p, base)>>
    ELSE <<LastName(p), p>>

\* the loop of filter_paths over the candidates of one path
RECURSIVE IncludeLoop(_, _, _, _)
IncludeLoop(allow, deny, cands, include) ==
    IF cands = <<>> THEN (IF include THEN "True" ELSE "False")
    ELSE LET c == Head(cands)
             d == IF deny # <<>> THEN MatchAny(c, deny) ELSE "False"
             a == IF allow = AllowAll THEN "True"
                  ELSE IF allow = <<>> THEN "False" ELSE MatchAny(c, allow)
         IN  IF c = <<>> \/ Strip(c) = <<>> THEN IncludeLoop(allow, deny, Tail(cands), include)
             ELSE IF d = "True" THEN "False"
             ELSE IF d = "ValueError" THEN "ValueError"
             ELSE IF a = "ValueError" THEN "ValueError"
             ELSE IncludeLoop(allow, deny, Tail(cands), include \/ a = "True")

\* filter_paths(paths, base_path): [status, kept]
FilterPaths(allow, deny, paths, base) ==
    LET verdicts == [i \in 1..Len(paths) |->
                        IncludeLoop(allow, deny, Candidates(paths[i], base), FALSE)]
        raising  == {i \in 1..Len(paths) : verdicts[i] = "ValueError"}
        keep     == {i \in 1..Len(paths) : verdicts[i] = "True"}
        nth(k)   == CHOOSE i \in keep : Cardinality({j \in keep : j <= i}) = k
    IN  IF raising # {} THEN [status |-> "ValueError", kept |-> <<>>]
        ELSE [status |-> "returned",
              kept |-> [k \in 1..Cardinality(keep) |-> paths[nth(k)]]]

\* ---- bounded inputs
MaxDeny == 2

\* **/*  *.py  src/**/*.py  **/*.log  src/*  .
GlobPatterns ==
    { <<"**", "/", "*">>, <<"*", ".py">>, <<"src", "/", "**", "/", "*", ".py">>,
      <<"**", "/", "*", ".log">>, <<"src", "/", "*">>, <<".">> }

\* the path strings should_include is asked about; the last two are blank
GlobPathStrings ==
    { <<"main", ".py">>, <<"src", "/", "main", ".py">>,
      <<"src", "/", "a", "/", "main", ".py">>, <<"skip", ".log">>,
      <<"src", "BS", "main", ".py">>, <<"a", ".txt">>, <<>>, <<"SP">>,
      <<"src", "/", "utils", "/", "helper", ".py">>,
      <<"src", "/", "a", "/", "b", "/", "c", ".py">>,
      <<"lib", "/", "main", ".py">> }

\* the Path objects filter_paths is given, and the base
GlobPathObjects ==
    { <<"/", "w", "/", "src", "/", "main", ".py">>,
      <<"/", "w", "/", "src", "/", "a", "/", "main", ".py">>,
      <<"/", "w", "/", "src", "/", "skip", ".log">>,
      <<"/", "w", "/", "x", "/", "a", ".txt">>,
      <<"src", "/", "main", ".py">> }

GlobBase == <<"/", "w", "/", "src">>

\* lists of one path and of two different paths
GlobPathLists ==
    {<<q>> : q \in GlobPathObjects}
    \cup {qr \in GlobPathObjects \X GlobPathObjects : qr[1] # qr[2]}

GlobInit ==
    /\ \E arg \in {Unset} \cup {Given(a) : a \in SeqsUpTo(GlobPatterns, 1)} :
          allow_patterns = AllowPatterns(arg)
    /\ deny_patterns \in SeqsUpTo(GlobPatterns, MaxDeny)
    /\ gpath = <<>>
    /\ gpaths = <<>>
    /\ base_path = <<>>
    /\ included = NoDecision
    /\ gphase = "built"

\* glob_filter.should_include(path)
ShouldIncludeCall ==
    /\ gphase = "built"
    /\ \E path \in GlobPathStrings :
          /\ gpath' = path
          /\ included' = [status |-> ShouldInclude(allow_patterns, deny_patterns, path),
                          kept |-> <<>>]
    /\ gphase' = "decided"
    /\ UNCHANGED <<allow_patterns, deny_patterns, gpaths, base_path>>
    /\ UNCHANGED <<codecVars, extractVars, validatorVars, creatorVars, manifestVars, detectVars>>

\* glob_filter.filter_paths(paths, base_path)
FilterPathsCall ==
    /\ gphase = "built"
    /\ \E paths \in GlobPathLists, base \in {<<>>, GlobBase} :
          /\ gpaths' = paths
          /\ base_path' = base
          /\ included' = FilterPaths(allow_patterns, deny_patterns, paths, base)
    /\ gphase' = "filtered"
    /\ UNCHANGED <<allow_patterns, deny_patterns, gpath>>
    /\ UNCHANGED <<codecVars, extractVars, validatorVars, creatorVars, manifestVars, detectVars>>

GlobNext == ShouldIncludeCall \/ FilterPathsCall

\* the filter alone
GlobStart == GlobInit /\ CodecIdle /\ ExtractIdle /\ ValidatorIdle /\ CreatorIdle /\ ManifestIdle /\ DetectIdle

SpecGlob == GlobStart /\ [][GlobNext]_vars

----------------------------------------------------------------------------
(* BundleCreator (writer.py): create_manifest reads the files it is given  *)
(* into entries.  A file is a sequence of bytes.                           *)

\* f.read(1024)
ChunkSize == 1024

\* max_file_mb = 10.0
DefaultMaxFileMb == 10

\* chunk.decode("utf-8") succeeds; of the bytes of the model those below 128
\* are the valid sequences
Utf8Valid(data) == \A i \in 1..Len(data) : data[i] < 128

\* bytes.decode("utf-8", errors="replace") per byte
DecodeByte(b) ==
    IF \E i \in 1..Len(Utf8Table) : Utf8Table[i][2] = b
    THEN Utf8Table[CHOOSE i \in 1..Len(Utf8Table) : Utf8Table[i][2] = b][1]
    ELSE "U+FFFD"

Utf8Decode(data) == [i \in 1..Len(data) |-> DecodeByte(data[i])]

\* the newline translation of a file opened for reading with newline=None:
\* CR LF and CR become LF
UniversalNewlines(text) ==
    LET kept == SelectSeq([i \in 1..Len(text) |-> i],
                          LAMBDA i : ~(text[i] = "LF" /\ i > 1 /\ text[i - 1] = "CR"))
    IN  [k \in 1..Len(kept) |-> IF text[kept[k]] = "CR" THEN "LF" ELSE text[kept[k]]]

\* Path.read_text(encoding="utf-8", errors="replace")
ReadText(data) == UniversalNewlines(Utf8Decode(data))

\* _detect_eol
DetectEol(text) ==
    LET n    == Len(text)
        crlf == {i \in 1..n : text[i] = "CR" /\ i < n /\ text[i + 1] = "LF"}
        lf   == {i \in 1..n : text[i] = "LF"} \ {i + 1 : i \in crlf}
        cr   == {i \in 1..n : text[i] = "CR"} \ crlf
        present_styles ==
            (IF lf # {} THEN {"LF"} ELSE {}) \cup (IF crlf # {} THEN {"CRLF"} ELSE {})
            \cup (IF cr # {} THEN {"CR"} ELSE {})
    IN  IF Cardinality(present_styles) > 1 THEN "MIXED"
        ELSE IF present_styles # {} THEN CHOOSE style \in present_styles : TRUE
        ELSE "LF"

\* base64.b64encode(data).decode("ascii")
B64Encode(data) ==
    LET n == Len(data)
        byte(i) == IF i <= n THEN data[i] ELSE 0
        group(g) ==
            LET v    == byte(3 * g - 2) * 65536 + byte(3 * g - 1) * 256 + byte(3 * g)
                have == Min(3, n - 3 * (g - 1))
            IN  << B64Alphabet[(v \div 262144) + 1],
                   B64Alphabet[((v \div 4096) % 64) + 1],
                   IF have >= 2 THEN B64Alphabet[((v \div 64) % 64) + 1] ELSE "=",
                   IF have = 3 THEN B64Alphabet[(v % 64) + 1] ELSE "=" >>
    IN  Flatten([g \in 1..((n + 2) \div 3) |-> group(g)])

\* the binary heuristic of _read_file_to_entry over the first chunk
IsBinary(data) ==
    LET chunk == SubSeq(data, 1, Min(ChunkSize, Len(data)))
    IN  (\E i \in 1..Len(chunk) : chunk[i] = 0) \/ ~Utf8Valid(chunk)

\* _read_file_to_entry(file_path, relative_path) where binary files are taken
ReadFileToEntry(data, relative_path) ==
    IF IsBinary(data)
    THEN Entry(relative_path, B64Encode(data), TRUE, "base64", "n/a")
    ELSE LET content == ReadText(data)
         IN  Entry(relative_path, content, FALSE, "utf-8", DetectEol(content))

\* create_manifest(files, base_path, profile_name): [status, entries].  The
\* first file over the ceiling raises FileSizeError, a binary file raises
\* BundleWriteError when binary handling is disabled.
RECURSIVE CreateEntries(_, _, _, _)
CreateEntries(files, ceiling, binary_ok, entries) ==
    IF files = <<>> THEN [status |-> "ok", entries |-> entries]
    ELSE LET file == Head(files)
         IN  IF Len(file.data) > ceiling
             THEN [status |-> "FileSizeError", entries |-> <<>>]
             ELSE IF IsBinary(file.data) /\ ~binary_ok
             THEN [status |-> "BundleWriteError", entries |-> <<>>]
             ELSE CreateEntries(Tail(files), ceiling, binary_ok,
                                Append(entries,
                                       ReadFileToEntry(file.data, NormSep(file.path))))

\* ---- bounded inputs
MaxFileLen == 3

\* NUL, LF, CR, a and a byte no UTF-8 text holds
FileBytes == {0, 10, 13, 97, 255}

FirstFile == <<"f", ".txt">>

SecondFile == <<"d", "/", "g", ".txt">>

\* the sorted list of files: f.txt alone, or d/g.txt before it
SourceTrees ==
    {<<[path |-> FirstFile, data |-> x]>> : x \in SeqsUpTo(FileBytes, MaxFileLen)}
    \cup {<<[path |-> SecondFile, data |-> <<97, 13, 10>>], [path |-> FirstFile, data |-> x]>> :
              x \in SeqsUpTo(FileBytes, MaxFileLen)}

CreatorInit ==
    /\ source_tree \in SourceTrees
    /\ profile_name \in ProfileNames
    /\ max_file_mb \in {2, DefaultMaxFileMb * 1024 * 1024}
    /\ treat_binary_as_base64 \in BOOLEAN
    /\ kphase = "found"

\* manifest = creator.create_manifest(files, base_path, profile_name); the
\* manifest is handed to the profile of that name
CreateManifest ==
    /\ kphase = "found"
    /\ LET r == CreateEntries(source_tree, max_file_mb, treat_binary_as_base64, <<>>)
       IN  IF r.status = "ok"
           THEN /\ kphase' = "collected"
                /\ codec' = profile_name
                /\ manifest' = r.entries
                /\ cphase' = "new"
           ELSE /\ kphase' = r.status
                /\ UNCHANGED <<codec, manifest, cphase>>
    /\ UNCHANGED <<source_tree, profile_name, max_file_mb, treat_binary_as_base64>>
    /\ UNCHANGED <<bundle, blocks, decoded>>
    /\ UNCHANGED <<extractVars, validatorVars, globVars, manifestVars, detectVars>>

\* BundleWriter(base_path=out).extract_manifest(manifest, out) with the
\* manifest the profile parsed
ExtractDecoded ==
    /\ xphase = "off"
    /\ cphase = "roundtrip"
    /\ decoded.status = "ok"
    /\ ExtractManifestOf(decoded.entries)

\* create, format, parse, extract
E2ENext ==
    CreateManifest \/ Format \/ Parse \/ ExtractDecoded \/ ProcessEntry \/ ReturnStats

E2EStart == CreatorInit /\ CodecIdle /\ ExtractIdle /\ ValidatorIdle /\ GlobIdle /\ ManifestIdle /\ DetectIdle

SpecE2E == E2EStart /\ [][E2ENext]_vars

\* the file a source file is expected at, below the extraction root
Destination(path) == Root \o [i \in 1..Len(PurePosixParts(path)) |-> Name(PurePosixParts(path)[i])]

\* C1: after create_manifest, format_manifest, parse_stream and
\* extract_manifest with the default settings into an empty root, every
\* source file is at the same relative path with the same bytes.
C1_EndToEndFidelity ==
    (kphase = "collected" /\ xphase = "returned") =>
        \A i \in 1..Len(source_tree) :
            /\ Destination(source_tree[i].path) \in DOMAIN disk.files
            /\ disk.files[Destination(source_tree[i].path)] = source_tree[i].data

----------------------------------------------------------------------------
(* Extraction: containment and the overwrite policies.                     *)

\* the entry the next iteration of the loop takes, and where it resolves to
NextEntry == run_manifest[position + 1]

NextTarget == ResolveOutputPath(NextEntry.path, Root)

\* the step is an iteration of the loop over an entry that passed validation
IteratesValidated ==
    /\ xphase = "running"
    /\ position < Len(run_manifest)
    /\ position' = position + 1
    /\ IsRelativeTo(NextTarget, Root)

\* the target is on disk or was written earlier in this run
TargetTaken == Exists(disk, NextTarget) \/ NextTarget \in pending_writes

\* the files a step leaves as they were: every file of before is in after
\* with the same bytes
FilesKept(before, after) ==
    \A p \in DOMAIN before.files :
        p \in DOMAIN after.files /\ after.files[p] = before.files[p]

\* the files of the disk that the run created or modified
Touched ==
    {p \in DOMAIN disk.files :
        p \notin DOMAIN disk0.files \/ disk.files[p] # disk0.files[p]}

\* C4: no file is created or modified outside the extraction root, and an
\* entry whose path resolves outside the root ends in a PathTraversalError
\* that is counted as an error and does not end the run.
C4_WritesInsideRoot ==
    /\ \A p \in Touched : IsRelativeTo(p, Root)
    /\ (last.status # "none" /\ ~IsRelativeTo(last.target, Root)) =>
          /\ last.status = "PathTraversalError"
          /\ stats.errors >= 1
          /\ xphase # "raised"

\* C7: under the prompt policy a write whose target is taken (on disk or
\* written earlier in the run) raises OverwriteError with the disk and the
\* tracking lists as they were, the run ends raising, and no step follows.
C7_PromptRaises ==
    [][ /\ xphase # "raised"
        /\ (IteratesValidated /\ overwrite_policy = "prompt" /\ TargetTaken) =>
              /\ last'.status = "OverwriteError"
              /\ disk' = disk
              /\ files_written' = files_written
              /\ pending_writes' = pending_writes
              /\ xphase' = "raised" ]_vars

\* a later entry is left unprocessed by the raise
C7_Witness ==
    /\ overwrite_policy = "prompt"
    /\ last.status = "OverwriteError"
    /\ xphase = "raised"
    /\ position < Len(run_manifest)

\* C8: under the skip policy a write whose target is taken leaves every file
\* as it was, appends the target to files_skipped and counts one skipped,
\* with processed and errors as they were.
C8_SkipLeavesFile ==
    [][ (IteratesValidated /\ overwrite_policy = "skip" /\ TargetTaken) =>
              /\ disk'.files = disk.files
              /\ files_skipped' = Append(files_skipped, NextTarget)
              /\ files_written' = files_written
              /\ stats' = [stats EXCEPT !.skipped = @ + 1]
              /\ last'.status = "skipped" ]_vars

\* an existing file was skipped and still holds its bytes
C8_Witness ==
    /\ overwrite_policy = "skip"
    /\ ~dry_run
    /\ last.status = "skipped"
    /\ last.target \in DOMAIN last.before.files
    /\ disk.files[last.target] = OnDisk
    /\ stats.skipped = 1

\* the sibling <stem>_N<ext> of a path
Numbered(p, n) == Append(Front(p), <<Last(p)[1] \o "_" \o ToString(n), Last(p)[2]>>)

\* the entry can be written: text in a known charset or well-formed base64
Writable(e) ==
    IF e.is_binary THEN e.content \in BinaryContents \cup {<<"A", "A", "E", "C">>}
    ELSE e.encoding = "utf-8"

\* C9: under the rename policy a writable entry whose target is taken is
\* written to <stem>_N<ext> beside the target, N the smallest number from 1
\* whose name is neither on disk nor among the targets of this run, and every
\* file that was on disk, the original target included, keeps its bytes.
C9_RenameSmallestFree ==
    [][ (IteratesValidated /\ overwrite_policy = "rename" /\ TargetTaken
         /\ Writable(NextEntry)) =>
          \E n \in 1..(2 * MaxEntries + 2) :
              /\ \A k \in 1..(n - 1) :
                    Exists(disk, Numbered(NextTarget, k))
                    \/ Numbered(NextTarget, k) \in pending_writes
              /\ ~Exists(disk, Numbered(NextTarget, n))
              /\ Numbered(NextTarget, n) \notin pending_writes
              /\ last'.status = "processed"
              /\ last'.written = Numbered(NextTarget, n)
              /\ files_written' = Append(files_written, Numbered(NextTarget, n))
              /\ FilesKept(disk, disk')
              /\ ~dry_run =>
                    /\ Numbered(NextTarget, n) \in DOMAIN disk'.files
                    /\ disk'.files[Numbered(NextTarget, n)]
                          = FinalBytes(NextEntry, add_headers) ]_vars

\* f.txt is on disk, the run wrote f_1.txt for a first entry, and a second
\* entry for the same target went to f_2.txt
C9_Witness ==
    /\ overwrite_policy = "rename"
    /\ ~dry_run
    /\ last.status = "processed"
    /\ last.target = Append(Root, <<"f", ".txt">>)
    /\ Append(Root, <<"f_1", ".txt">>) \in last.pending
    /\ last.written = Append(Root, <<"f_2", ".txt">>)
    /\ disk.files[last.target] = OnDisk

\* the last iteration wrote a text entry to disk
TextWritten ==
    /\ position >= 1
    /\ last.status = "processed"
    /\ ~dry_run
    /\ ~run_manifest[position].is_binary

\* the byte order mark of the utf-8-sig charset, for the names that choose it
DeclaredBom(e) ==
    IF e.encoding \in BomVariants \cup {"utf-8-sig"} THEN <<239, 187, 191>> ELSE <<>>

LastTargetTaken == Exists(last.before, last.target) \/ last.target \in last.pending

\* C14: in a dry run every entry gets its path validation and its overwrite
\* decision, and the disk stays as it was before the run: no file or
\* directory is created, modified or deleted.
C14_DryRunNoMutation ==
    dry_run =>
        /\ disk = disk0
        /\ last.status # "none" =>
              /\ ~IsRelativeTo(last.target, Root) <=> last.status = "PathTraversalError"
              /\ (IsRelativeTo(last.target, Root) /\ LastTargetTaken) =>
                    /\ overwrite_policy = "prompt" => last.status = "OverwriteError"
                    /\ overwrite_policy = "skip" => last.status = "skipped"
                    /\ (overwrite_policy = "rename" /\ last.status = "processed") =>
                          last.written # last.target

\* a dry run under the overwrite policy went over an existing file and returned
C14_Witness ==
    /\ dry_run
    /\ overwrite_policy = "overwrite"
    /\ xphase = "returned"
    /\ last.status = "processed"
    /\ last.target \in DOMAIN disk0.files
    /\ disk = disk0
    /\ disk.files[last.target] = OnDisk

\* how an iteration of the loop can fail
FailureStatuses == {"PathTraversalError", "BundleWriteError", "Exception"}

\* C15: under skip, rename or overwrite a failure on one entry does not end
\* the run: it is counted as one error, no file is written for the entry,
\* and the loop goes on over every other entry.
C15_ErrorsAccumulate ==
    (overwrite_policy # "prompt" /\ ~dry_run /\ last.status \in FailureStatuses) =>
        /\ xphase \in {"running", "returned"}
        /\ stats.errors >= 1
        /\ stats.processed + stats.skipped + stats.errors = position
        /\ xphase = "returned" => position = Len(run_manifest)
        /\ disk.files = last.before.files

\* C27: when extract_manifest returns, processed + skipped + errors is the
\* number of entries of the manifest, processed is the number of paths in
\* files_written and skipped the number of paths in files_skipped.
C27_RunAccounting ==
    xphase = "returned" =>
        /\ stats.processed + stats.skipped + stats.errors = Len(run_manifest)
        /\ stats.processed = Len(files_written)
        /\ stats.skipped = Len(files_skipped)

\* a run of two entries returned with one entry skipped and one in error
C27_Witness ==
    /\ xphase = "returned"
    /\ Len(run_manifest) = 2
    /\ stats = [processed |-> 0, skipped |-> 1, errors |-> 1]
    /\ Len(files_skipped) = 1

\* C28: under prompt, skip and rename a run leaves every file that was on
\* disk before it as it was, and writes no path twice, also when two entry
\* paths resolve to one target or a renamed target is the path of a later
\* entry.
C28_NoClobbering ==
    overwrite_policy # "overwrite" =>
        /\ \A p \in DOMAIN disk0.files :
              p \in DOMAIN disk.files /\ disk.files[p] = disk0.files[p]
        /\ \A i, j \in 1..Len(files_written) :
              i # j => files_written[i] # files_written[j]

\* f.txt was on disk, a first entry f.txt was written to f_1.txt, and the
\* later entry f_1.txt went to a third name; f.txt holds its bytes
C28_Witness ==
    /\ overwrite_policy = "rename"
    /\ ~dry_run
    /\ xphase = "returned"
    /\ Len(files_written) = 2
    /\ files_written[1] = Append(Root, <<"f_1", ".txt">>)
    /\ run_manifest[2].path = <<"f_1", ".txt">>
    /\ files_written[2] # files_written[1]
    /\ Append(Root, <<"f", ".txt">>) \in DOMAIN disk0.files
    /\ disk.files[Append(Root, <<"f", ".txt">>)] = OnDisk

----------------------------------------------------------------------------
(* One writer, several runs (writer.py, extract_manifest).                 *)

\* ---- bounded inputs
MaxRuns == 2

MaxRerunLen == 2

RerunEntries ==
    {e \in ExtractEntries :
        e.path \in { <<"f", ".txt">>, <<"/", "f", ".txt">>, <<"k", ".txt">> }}

RerunManifests == SeqsUpTo(RerunEntries, MaxRerunLen)

\* the root is missing, or is there with f.txt in it
RerunDisks ==
    {d \in InitialDisks : DOMAIN d.files \subseteq {Append(Root, <<"f", ".txt">>)}}

\* writer.extract_manifest(manifest, output_dir), on a new writer or on one
\* that has made a run
ExtractManifestAgain ==
    /\ xphase \in {"idle", "returned", "raised"}
    /\ run_no < MaxRuns
    /\ \E m \in {n \in RerunManifests : ~HasDuplicatePaths(n)} : ExtractManifestOf(m)

RerunNext == ExtractManifestAgain \/ ProcessEntry \/ ReturnStats

\* a writer without headers, and the runs made on it
RerunStart ==
    /\ ExtractInit
    /\ ~add_headers
    /\ disk \in RerunDisks
    /\ CodecIdle /\ ValidatorIdle /\ GlobIdle /\ CreatorIdle /\ ManifestIdle /\ DetectIdle

SpecRerun == RerunStart /\ [][RerunNext]_vars

----------------------------------------------------------------------------
(* A run as a function of the writer, the disk and the manifest.           *)

\* the writer as the reset at the start of extract_manifest leaves it
FreshWriter(dry) ==
    [overwrite_policy |-> overwrite_policy, dry_run |-> dry, add_headers |-> add_headers,
     files_written |-> <<>>, files_skipped |-> <<>>, files_renamed |-> EmptyMap,
     pending_writes |-> {}]

\* one iteration of the loop: [status, written, w, d]
StepOf(w, d, entry) ==
    LET target_path == ResolveOutputPath(entry.path, Root)
        r           == WriteEntry(w, d, entry, target_path)
    IN  IF ~ValidatePathOk(target_path, Root)
        THEN [status |-> "PathTraversalError", written |-> <<>>, w |-> w, d |-> d]
        ELSE [status |-> r.status,
              written |-> IF r.status = "processed" THEN r.target ELSE <<>>,
              w |-> r.w, d |-> r.d]

\* the loop from entry i on: [w, d, outcomes, raised]
RECURSIVE LoopFrom(_, _, _, _, _)
LoopFrom(w, d, m, i, outcomes) ==
    IF i > Len(m) THEN [w |-> w, d |-> d, outcomes |-> outcomes, raised |-> FALSE]
    ELSE LET st  == StepOf(w, d, m[i])
             out == Append(outcomes, [status |-> st.status, written |-> st.written])
         IN  IF Reraised(st.status, w.overwrite_policy)
             THEN [w |-> st.w, d |-> st.d, outcomes |-> out, raised |-> TRUE]
             ELSE LoopFrom(st.w, st.d, m, i + 1, out)

\* extract_manifest(m) of a writer in its first run on the disk d
FreshRun(dry, d, m) ==
    IF dry THEN LoopFrom(FreshWriter(dry), d, m, 1, <<>>)
    ELSE IF ~MkdirOk(d, Root)
         THEN [w |-> FreshWriter(dry), d |-> d, outcomes |-> <<>>, raised |-> TRUE]
    ELSE LoopFrom(FreshWriter(dry), Mkdir(d, Root), m, 1, <<>>)

\* the counts of a list of outcomes
CountOf(outcomes, statuses) ==
    Cardinality({i \in 1..Len(outcomes) : outcomes[i].status \in statuses})

StatsOf(outcomes) ==
    [processed |-> CountOf(outcomes, {"processed"}),
     skipped   |-> CountOf(outcomes, {"skipped"}),
     errors    |-> Len(outcomes) - CountOf(outcomes, {"processed", "skipped"})]

\* C29: a run starts from empty lists and sets: when it ends, what the
\* writer recorded, what it counted and what is on disk are what a writer
\* in its first run would have left for the same manifest, policy and disk,
\* whatever runs were made before.
C29_RunIndependence ==
    xphase \in {"returned", "raised"} =>
        LET fresh == FreshRun(dry_run, disk0, run_manifest)
        IN  /\ files_written = fresh.w.files_written
            /\ files_skipped = fresh.w.files_skipped
            /\ files_renamed = fresh.w.files_renamed
            /\ pending_writes = fresh.w.pending_writes
            /\ disk = fresh.d
            /\ stats = StatsOf(fresh.outcomes)
            /\ xphase = "raised" <=> fresh.raised

\* the second run of a writer under rename found the f.txt of its first run
\* and recorded its own f_1.txt only
C29_Witness ==
    /\ run_no = 2
    /\ xphase = "returned"
    /\ ~dry_run
    /\ overwrite_policy = "rename"
    /\ Append(Root, <<"f", ".txt">>) \in DOMAIN disk0.files
    /\ files_written = << Append(Root, <<"f_1", ".txt">>) >>
    /\ pending_writes = { Append(Root, <<"f_1", ".txt">>) }

\* C30: a dry run reports for every entry what a real run of the same
\* manifest under the same policy on the same disk reports: processed,
\* skipped or the error, and the target written to (the renamed one under
\* rename); so the counts are the same.
C30_DryRunFaithful ==
    (dry_run /\ xphase \in {"running", "returned", "raised"}) =>
        LET real == FreshRun(FALSE, disk0, run_manifest)
        IN  /\ position >= 1 =>
                  /\ position <= Len(real.outcomes)
                  /\ real.outcomes[position].status = last.status
                  /\ real.outcomes[position].written = last.written
            /\ xphase = "returned" => stats = StatsOf(real.outcomes)
            /\ xphase = "raised" => real.raised

----------------------------------------------------------------------------
(* Deny precedence.                                                        *)

\* some deny pattern matches the string
DenyHits(str) ==
    \E i \in 1..Len(deny_patterns) : MatchOne(NormSep(str), deny_patterns[i]) = "True"

\* some deny pattern matches one of the forms of the path filter_paths looks at
DenyHitsPath(q) ==
    \E k \in 1..Len(Candidates(q, base_path)) :
        /\ Strip(Candidates(q, base_path)[k]) # <<>>
        /\ DenyHits(Candidates(q, base_path)[k])

\* C6: when a deny pattern matches the path, should_include returns False and
\* filter_paths leaves the path out, whatever the allow patterns are.
C6_DenyAlwaysWins ==
    /\ (gphase = "decided" /\ Strip(gpath) # <<>> /\ DenyHits(gpath)) =>
          included.status = "False"
    /\ gphase = "filtered" =>
          \A i \in 1..Len(gpaths) :
              DenyHitsPath(gpaths[i]) =>
                  \A k \in 1..Len(included.kept) : included.kept[k] # gpaths[i]

\* the pattern src/**/*.py
SrcPy == <<"src", "/", "**", "/", "*", ".py">>

\* a path of a .py file at any depth below the directory src
UnderSrcPy(path) ==
    LET parts == PurePosixParts(NormSep(path))
    IN  /\ Len(parts) >= 2
        /\ Head(parts) = <<"src">>
        /\ Last(Last(parts)) = ".py"

\* C16: a filter that allows src/**/*.py and denies nothing includes the
\* .py files at every depth below src (none, one or several directories in
\* between) and no path outside src.
C16_RecursiveGlob ==
    (gphase = "decided" /\ allow_patterns = <<SrcPy>> /\ deny_patterns = <<>>) =>
        (included.status = "True" <=> UnderSrcPy(gpath))

\* no deny pattern of the filter matches the path string
NoDenyHit(str) ==
    \A i \in 1..Len(deny_patterns) : MatchOne(NormSep(str), deny_patterns[i]) # "True"

\* C17: a filter built with allow unset includes every path that no deny
\* pattern matches, and a filter built with an empty allow list excludes
\* every path.  A blank string is not taken for a path.
C17_AllowSemantics ==
    (gphase = "decided" /\ Strip(gpath) # <<>>) =>
        /\ (allow_patterns = AllowPatterns(Unset) /\ NoDenyHit(gpath)) =>
              included.status = "True"
        /\ allow_patterns = AllowPatterns(Given(<<>>)) => included.status = "False"

----------------------------------------------------------------------------
(* BundleManifest (models.py): construction, add_entry, remove_entry       *)

\* BundleEntry(path=p, content=c, ...) as __post_init__ leaves it: the
\* separators of the path are forward slashes
NewBundleEntry(p, c) == Entry(NormSep(p), c, FALSE, "utf-8", "LF")

\* get_entry(path): the first entry of that path in a list of one, or the
\* empty list for None
GetEntry(entries, path) ==
    LET normalized_path == NormSep(path)
        hits == {i \in 1..Len(entries) : entries[i].path = normalized_path}
    IN  IF hits = {} THEN <<>>
        ELSE <<entries[CHOOSE i \in hits : \A j \in hits : i <= j]>>

\* an add_entry that appends without looking
AddEntryUnchecked(entries, entry) ==
    [status |-> "None", entries |-> Append(entries, entry)]

\* add_entry(entry): [status, entries]
AddEntry(entries, entry) ==
    IF GetEntry(entries, entry.path) # <<>>
    THEN [status |-> "ValueError", entries |-> entries]
    ELSE [status |-> "None", entries |-> Append(entries, entry)]

\* remove_entry(path): [status, entries]; del self.entries[i] for the first
\* entry of that path
RemoveEntry(entries, path) ==
    LET normalized_path == NormSep(path)
        hits == {i \in 1..Len(entries) : entries[i].path = normalized_path}
        i    == CHOOSE k \in hits : \A j \in hits : k <= j
    IN  IF hits = {} THEN [status |-> "False", entries |-> entries]
        ELSE [status |-> "True",
              entries |-> SubSeq(entries, 1, i - 1) \o SubSeq(entries, i + 1, Len(entries))]

\* ---- bounded inputs
MaxGiven == 2

MaxManifest == 3

\* a.txt  b.txt  d/a.txt  d\a.txt
ManifestPaths ==
    { <<"a", ".txt">>, <<"b", ".txt">>, <<"d", "/", "a", ".txt">>,
      <<"d", "BS", "a", ".txt">> }

ManifestEntries == {NewBundleEntry(p, c) : p \in ManifestPaths, c \in {<<"n">>, <<"m">>}}

\* the paths remove_entry is asked about
RemovePaths == ManifestPaths \cup { <<"z", ".txt">> }

ManifestInit ==
    /\ manifest_entries = <<>>
    /\ mcall = NoCall
    /\ mphase = "new"

\* BundleManifest(entries=given, profile="plain_marker")
NewManifest ==
    /\ mphase = "new"
    /\ \E given \in SeqsUpTo(ManifestEntries, MaxGiven) :
          IF HasDuplicatePaths(given)
          THEN /\ manifest_entries' = <<>>
               /\ mcall' = [op |-> "construct", arg |-> given, result |-> "ValueError",
                            before |-> <<>>]
               /\ mphase' = "failed"
          ELSE /\ manifest_entries' = given
               /\ mcall' = [op |-> "construct", arg |-> given, result |-> "None",
                            before |-> <<>>]
               /\ mphase' = "built"
    /\ UNCHANGED <<codecVars, extractVars, validatorVars, globVars, creatorVars, detectVars>>

\* manifest.add_entry(entry)
AddEntryCall ==
    /\ mphase = "built"
    /\ Len(manifest_entries) < MaxManifest
    /\ \E entry \in ManifestEntries :
          LET r == AddEntry(manifest_entries, entry)
          IN  /\ manifest_entries' = r.entries
              /\ mcall' = [op |-> "add", arg |-> entry, result |-> r.status,
                           before |-> manifest_entries]
    /\ UNCHANGED mphase
    /\ UNCHANGED <<codecVars, extractVars, validatorVars, globVars, creatorVars, detectVars>>

\* manifest.remove_entry(path)
RemoveEntryCall ==
    /\ mphase = "built"
    /\ \E path \in RemovePaths :
          LET r == RemoveEntry(manifest_entries, path)
          IN  /\ manifest_entries' = r.entries
              /\ mcall' = [op |-> "remove", arg |-> path, result |-> r.status,
                           before |-> manifest_entries]
    /\ UNCHANGED mphase
    /\ UNCHANGED <<codecVars, extractVars, validatorVars, globVars, creatorVars, detectVars>>

ManifestNext == NewManifest \/ AddEntryCall \/ RemoveEntryCall

\* the manifest alone
ManifestStart ==
    ManifestInit /\ CodecIdle /\ ExtractIdle /\ ValidatorIdle /\ GlobIdle /\ CreatorIdle
    /\ DetectIdle

SpecManifest == ManifestStart /\ [][ManifestNext]_vars

\* the entries of a list whose path, with forward slashes, is the given one
WithPath(list, path) ==
    {i \in 1..Len(list) : NormSep(list[i].path) = NormSep(path)}

\* C18: no two entries of a manifest have one normalized path, whatever was
\* constructed, added and removed: construction with a path twice raises,
\* add_entry of a path that is present raises and leaves the entries as they
\* were, and remove_entry takes out exactly the entry of the path and tells
\* whether there was one.
C18_PathsUnique ==
    /\ \A i, j \in 1..Len(manifest_entries) :
          i # j => NormSep(manifest_entries[i].path) # NormSep(manifest_entries[j].path)
    /\ mcall.op = "construct" =>
          IF \E i \in 1..Len(mcall.arg) : Cardinality(WithPath(mcall.arg, mcall.arg[i].path)) > 1
          THEN mcall.result = "ValueError" /\ mphase = "failed"
          ELSE mcall.result = "None" /\ manifest_entries = mcall.arg
    /\ mcall.op = "add" =>
          IF WithPath(mcall.before, mcall.arg.path) # {}
          THEN mcall.result = "ValueError" /\ manifest_entries = mcall.before
          ELSE mcall.result = "None" /\ manifest_entries = Append(mcall.before, mcall.arg)
    /\ mcall.op = "remove" =>
          /\ manifest_entries =
                SelectSeq(mcall.before, LAMBDA e : NormSep(e.path) # NormSep(mcall.arg))
          /\ mcall.result = "True" <=> WithPath(mcall.before, mcall.arg) # {}
          /\ mcall.result \in {"True", "False"}

\* add_entry refused an entry whose path, written with the other separator
\* before it was constructed, was in a manifest of two entries
C18_Witness ==
    /\ mcall.op = "add"
    /\ mcall.result = "ValueError"
    /\ Len(manifest_entries) = 2
    /\ mcall.arg.path = <<"d", "/", "a", ".txt">>
    /\ \E i \in 1..2 : /\ manifest_entries[i].path = mcall.arg.path
                       /\ manifest_entries[i].content # mcall.arg.content


----------------------------------------------------------------------------
(* BundleParser (parser.py): auto-detection.  A text is a run of pad prose *)
(* characters without a line break followed by the characters of rest.     *)

\* snippet = text[:2048]
SnippetLen == 2048

\* splitlines()[:20] in PlainMarkerProfile.detect_format
PMDetectLines == 20

\* split("\n")[:30] in MarkdownFenceProfile.detect_format
MFDetectLines == 30

\* register(profile_class): self._profiles[profile_name] = profile_class; a
\* dict keeps a key that is present where it is
Register(profiles, name) ==
    IF \E i \in 1..Len(profiles) : profiles[i] = name THEN profiles
    ELSE Append(profiles, name)

\* ProfileRegistry(): _register_builtin_profiles
BuiltinProfiles == Register(Register(<<>>, "plain_marker"), "md_fence")

\* a probe that is handed the whole text
WholeText(text) == text

\* text[:2048]
Snippet(text) ==
    IF text.pad >= SnippetLen THEN [pad |-> SnippetLen, rest |-> <<>>]
    ELSE [pad |-> text.pad,
          rest |-> SubSeq(text.rest, 1, Min(Len(text.rest), SnippetLen - text.pad))]

\* the characters of a text for the line patterns: a run of prose
\* characters at the start of a line stands in their way as one does
Chars(text) == (IF text.pad > 0 THEN <<"a">> ELSE <<>>) \o text.rest

\* str.split("\n")
SplitLF(s) ==
    LET breaks == {i \in 1..Len(s) : s[i] = "LF"}
        n      == Cardinality(breaks)
        pos(k) == IF k = 0 THEN 0
                  ELSE IF k = n + 1 THEN Len(s) + 1
                  ELSE CHOOSE b \in breaks : Cardinality({c \in breaks : c <= b}) = k
    IN  [k \in 1..(n + 1) |-> SubSeq(s, pos(k - 1) + 1, pos(k) - 1)]

\* PlainMarkerProfile.detect_format(text)
PMDetectFormat(s) ==
    LET lines == SplitLines(s)
    IN  \E i \in 1..Min(Len(lines), PMDetectLines) : PMFileMatch(lines[i])

\* MarkdownFenceProfile.detect_format(text)
MFDetectFormat(s) ==
    LET lines == SplitLF(s)
        n     == Min(Len(lines), MFDetectLines)
    IN  /\ \E i \in 1..n : MFFileMatch(lines[i])
        /\ \E i \in 1..n : MFFenceOpenMatch(lines[i])

\* profile.detect_format(snippet)
DetectFormat(name, text) ==
    IF name = "plain_marker" THEN PMDetectFormat(Chars(text)) ELSE MFDetectFormat(Chars(text))

\* the loop of _detect_profile over registry.get_all_profiles()
RECURSIVE DetectLoop(_, _, _)
DetectLoop(profiles, attempted, text) ==
    IF profiles = <<>>
    THEN [status |-> "ProfileDetectionError", name |-> "", attempted |-> attempted]
    ELSE IF DetectFormat(Head(profiles), Snippet(text))
         THEN [status |-> "ok", name |-> Head(profiles),
               attempted |-> Append(attempted, Head(profiles))]
    ELSE DetectLoop(Tail(profiles), Append(attempted, Head(profiles)), text)

\* _detect_profile(text)
DetectProfile(profiles, text) == DetectLoop(profiles, <<>>, text)

\* ---- bounded inputs: after the pad and a line break, up to MaxPieces pieces
MaxPieces == 2

\* how many characters of rest the longest pad leaves in the snippet
MaxKept == 12

DetectPieces ==
    { PMShapeText("xA"), MFShapeText("xA"), PMShapeText("prose"),
      <<"FENCE", "LF">>, <<"#FILE:", "LF">> }

DetectPads == {0} \cup {SnippetLen - k : k \in 0..MaxKept}

DetectTexts ==
    {[pad |-> p, rest |-> <<"LF">> \o Flatten(pieces)] :
        p \in DetectPads, pieces \in SeqsUpTo(DetectPieces, MaxPieces)}

DetectInit ==
    /\ registry = BuiltinProfiles
    /\ dtext \in DetectTexts
    /\ detection = NoDetection
    /\ dphase = "ready"

\* parser._detect_profile(text)
DetectProfileCall ==
    /\ dphase = "ready"
    /\ detection' = DetectProfile(registry, dtext)
    /\ dphase' = "detected"
    /\ UNCHANGED <<registry, dtext>>
    /\ UNCHANGED <<codecVars, extractVars, validatorVars, globVars, creatorVars,
                   manifestVars>>

DetectNext == DetectProfileCall

\* the parser alone
DetectStart ==
    DetectInit /\ CodecIdle /\ ExtractIdle /\ ValidatorIdle /\ GlobIdle /\ CreatorIdle
    /\ ManifestIdle

SpecDetect == DetectStart /\ [][DetectNext]_vars

\* the first 2048 characters of the text handed in
FirstTwoKB ==
    [pad  |-> Min(dtext.pad, 2048),
     rest |-> IF dtext.pad >= 2048 THEN <<>>
              ELSE SubSeq(dtext.rest, 1, Min(Len(dtext.rest), 2048 - dtext.pad))]

\* the places in the registry of the codecs whose probe matches those characters
Matching == {i \in 1..Len(registry) : DetectFormat(registry[i], FirstTwoKB)}

\* C19: detection answers from the first 2048 characters alone: it returns
\* the first codec, in the order of registration, whose probe matches them,
\* and when none matches it raises ProfileDetectionError with the names of
\* all registered codecs, plain_marker and md_fence.
C19_AutoDetection ==
    dphase = "detected" =>
        IF Matching = {}
        THEN /\ detection.status = "ProfileDetectionError"
             /\ detection.attempted = registry
             /\ detection.attempted = <<"plain_marker", "md_fence">>
        ELSE /\ detection.status = "ok"
             /\ detection.name = registry[CHOOSE i \in Matching : \A j \in Matching : i <= j]

\* detection failed on a text whose FILE line lies behind the first 2048
\* characters, and both names were tried
C19_Witness ==
    /\ dphase = "detected"
    /\ detection.status = "ProfileDetectionError"
    /\ detection.attempted = <<"plain_marker", "md_fence">>
    /\ dtext.pad > 0
    /\ PMDetectFormat(Chars(dtext))


----------------------------------------------------------------------------
(* The predicate form of the validator.                                    *)

\* C24: is_safe_path answers True or False for every path and raises
\* nothing: True when validate_path(path) returns, False in every other
\* case, a path whose resolution fails included.
C24_IsSafeTotal ==
    vphase = "asked" =>
        /\ verdict.status \in {"True", "False"}
        /\ verdict.status = "True" <=> ValidatePath(vpath, FALSE).status = "returned"

\* ---------------------------------------------------------------------
\* Discovery: BundleCreator.discover_files
\* ---------------------------------------------------------------------

\* DEFAULT_DENY_GLOBS, the patterns that can match a name of the trees below:
\* **/.git/**  **/__pycache__/**  **/*.pyc  **/node_modules/**  **/*.log
DefaultDenyGlobs ==
    << <<"**", "/", ".git", "/", "**">>, <<"**", "/", "__pycache__", "/", "**">>,
       <<"**", "/", "*", ".pyc">>, <<"**", "/", "node_modules", "/", "**">>,
       <<"**", "/", "*", ".log">> >>

\* self.deny_globs as BundleCreator.__init__ sets it: a given list replaces
\* the default list
DenyGlobs(arg) == IF ~arg.given THEN DefaultDenyGlobs ELSE arg.patterns

\* the component names of the trees, in the order of Python strings
NameOrder ==
    << <<".git">>, <<"__pycache__">>, <<"config">>, <<"index", ".py">>, <<"main">>,
       <<"main", ".py">>, <<"main", ".pyc">>, <<"node_modules">>, <<"pkg">>,
       <<"refs">>, <<"sub">>, <<"w">> >>

NameRank(name) ==
    IF \E i \in 1..Len(NameOrder) : NameOrder[i] = name
    THEN CHOOSE i \in 1..Len(NameOrder) : NameOrder[i] = name
    ELSE 0

\* Path.__lt__: the components are compared in turn, a prefix comes first
RECURSIVE PartsLess(_, _)
PartsLess(a, b) ==
    IF b = <<>> THEN FALSE
    ELSE IF a = <<>> THEN TRUE
    ELSE IF Head(a) = Head(b) THEN PartsLess(Tail(a), Tail(b))
    ELSE NameRank(Head(a)) < NameRank(Head(b))

PathLess(p, q) == PartsLess(PurePosixParts(p), PurePosixParts(q))

\* sorted(list(discovered_files))
SortedPaths(found) ==
    [k \in 1..Cardinality(found) |->
        CHOOSE p \in found : Cardinality({q \in found : PathLess(q, p)}) = k - 1]

\* the elements of a sequence
Range(s) == {s[i] : i \in 1..Len(s)}

\* discover_files(source_path, base_path) over the files of a tree:
\* [status, kept]
DiscoverFiles(allow, deny, tree, source_path, base_arg) ==
    LET is_file == source_path \in Range(tree)
        base    == IF base_arg # <<>> THEN base_arg
                   ELSE IF is_file THEN Join(<<"/">>, << <<>> >> \o Front(PurePosixParts(source_path)))
                   ELSE source_path
        rel(p)  == IF IsUnder(p, base) THEN RelativeTo(p, base)
                   ELSE IF is_file THEN LastName(p) ELSE <<>>
        walked  == IF is_file THEN {source_path}
                   ELSE {p \in Range(tree) : IsUnder(p, source_path) /\ IsUnder(p, base)}
        answer == [p \in walked |-> ShouldInclude(allow, deny, rel(p))]
    IN  IF \A p \in Range(tree) : ~IsUnder(p, source_path)
        THEN [status |-> "BundleWriteError", kept |-> <<>>]
        ELSE IF \E p \in walked : answer[p] = "ValueError"
        THEN [status |-> "ValueError", kept |-> <<>>]
        ELSE [status |-> "returned",
              kept |-> SortedPaths({p \in walked : answer[p] = "True"})]

\* ---- bounded inputs
DiscoverRoot == <<"/", "w">>

\* the files a source tree is made of
TreeFiles ==
    { <<"/", "w", "/", ".git", "/", "config">>,
      <<"/", "w", "/", ".git", "/", "refs", "/", "main">>,
      <<"/", "w", "/", "__pycache__", "/", "main", ".pyc">>,
      <<"/", "w", "/", "main", ".py">>,
      <<"/", "w", "/", "node_modules", "/", "pkg", "/", "index", ".py">>,
      <<"/", "w", "/", "sub", "/", "main", ".py">> }

\* the trees: every non-empty choice of the files, listed in some order
SourceDirs == {SortedPaths(fs) : fs \in (SUBSET TreeFiles) \ {{}}}

\* allow_globs and deny_globs of the constructor: None, or a list
AllowGlobArgs == {Unset, Given(<< <<"*", ".py">> >>), Given(<< <<"**", "/", "*">> >>)}

DenyGlobArgs == {Unset, Given(<<>>), Given(<< <<"**", "/", "*", ".log">> >>)}

\* the source paths asked for: the root, two directories, a file
DiscoverSources ==
    {DiscoverRoot, <<"/", "w", "/", "sub">>, <<"/", "w", "/", ".git">>,
     <<"/", "w", "/", "main", ".py">>}

\* BundleCreator(allow_globs, deny_globs) over a tree on disk
DiscoverInit ==
    /\ \E arg \in AllowGlobArgs : allow_patterns = AllowPatterns(arg)
    /\ \E arg \in DenyGlobArgs : deny_patterns = DenyGlobs(arg)
    /\ gpaths \in SourceDirs
    /\ gpath = <<>>
    /\ base_path = <<>>
    /\ included = NoDecision
    /\ gphase = "built"

\* creator.discover_files(source_path, base_path)
DiscoverFilesCall ==
    /\ gphase = "built"
    /\ \E source_path \in DiscoverSources, base \in {<<>>, DiscoverRoot} :
          /\ gpath' = source_path
          /\ base_path' = base
          /\ included' = DiscoverFiles(allow_patterns, deny_patterns, gpaths,
                                        source_path, base)
    /\ gphase' = "discovered"
    /\ UNCHANGED <<allow_patterns, deny_patterns, gpaths>>
    /\ UNCHANGED <<codecVars, extractVars, validatorVars, creatorVars, manifestVars, detectVars>>

DiscoverNext == DiscoverFilesCall

\* discovery alone
DiscoverStart == DiscoverInit /\ CodecIdle /\ ExtractIdle /\ ValidatorIdle /\ CreatorIdle /\ ManifestIdle /\ DetectIdle

SpecDiscover == DiscoverStart /\ [][DiscoverNext]_vars

\* the directory names DEFAULT_DENY_GLOBS is written to keep out
ExcludedDirs == {<<".git">>, <<"__pycache__">>, <<"node_modules">>}

\* the file lies, at any depth, beneath a directory of an excluded name
UnderExcluded(p) == \E d \in Range(Front(PurePosixParts(p))) : d \in ExcludedDirs

\* C21: the list discover_files returns holds no file beneath a directory
\* of an excluded name, whatever allow and deny lists the creator was built
\* with; it holds each file once and is in sorted order
C21_DiscoveryExclusions ==
    (gphase = "discovered" /\ included.status = "returned") =>
        LET kept == included.kept
        IN  /\ \A i \in 1..Len(kept) : ~UnderExcluded(kept[i])
            /\ \A i, j \in 1..Len(kept) : i < j => PathLess(kept[i], kept[j])

\* ---------------------------------------------------------------------
\* What makes create_manifest fail
\* ---------------------------------------------------------------------

\* the files of the tree that are larger than the ceiling
Oversize == {i \in 1..Len(source_tree) : Len(source_tree[i].data) > max_file_mb}

\* C22: create_manifest fails only for a file above the size ceiling, and
\* then with FileSizeError; a file whose classification fails is left out and
\* every other file is collected
C22_OnlySizeIsFatal ==
    kphase # "found" =>
        IF Oversize # {} THEN kphase = "FileSizeError"
        ELSE /\ kphase = "collected"
             /\ \A i \in 1..Len(source_tree) :
                   (IsBinary(source_tree[i].data) => treat_binary_as_base64) =>
                       \E k \in 1..Len(manifest) :
                           manifest[k].path = NormSep(source_tree[i].path)

\* ---------------------------------------------------------------------
\* The fields of an entry
\* ---------------------------------------------------------------------

\* the path has forward slashes only, the eol_style is one of the five
\* tokens, and n/a stands on binary entries only
WellFormedEntry(e) ==
    /\ \A i \in 1..Len(e.path) : e.path[i] # "BS"
    /\ e.eol_style \in ValidEol
    /\ e.eol_style = "n/a" => e.is_binary

\* C23: every entry parse_stream returns, and every entry of a manifest that
\* format_manifest has validated, has a path of forward slashes only and an
\* eol_style among LF, CRLF, CR, MIXED, n/a, with n/a on binary entries only
C23_EntryWellFormed ==
    /\ decoded.status = "ok" =>
          \A i \in 1..Len(decoded.entries) : WellFormedEntry(decoded.entries[i])
    /\ cphase \in {"encoded", "roundtrip"} =>
          \A i \in 1..Len(manifest) : WellFormedEntry(manifest[i])

\* ---------------------------------------------------------------------
\* PathValidator.sanitize_filename
\* ---------------------------------------------------------------------

\* reserved_chars: < > : " | ? *  ("DQ" is the double quote)
ReservedChars == {"<", ">", ":", "DQ", "|", "?", "*"}

\* temp_sep, one character of the model
TempSep == "___SEPARATOR___"

\* a filename argument that is no str
NotAStr == <<"None", "None">>

Unnamed == <<"unnamed">>

\* filename.replace(char, "_") for every reserved character
ReplaceReserved(s) == [i \in 1..Len(s) |-> IF s[i] \in ReservedChars THEN "_" ELSE s[i]]

\* filename.replace("/", temp_sep).replace("\\", temp_sep)
ReplaceSeparators(s) == [i \in 1..Len(s) |-> IF s[i] \in {"/", "BS"} THEN TempSep ELSE s[i]]

\* filename.split(temp_sep)
RECURSIVE SplitOn(_, _, _)
SplitOn(s, seps, cur) ==
    IF s = <<>> THEN <<cur>>
    ELSE IF Head(s) \in seps THEN <<cur>> \o SplitOn(Tail(s), seps, <<>>)
    ELSE SplitOn(Tail(s), seps, Append(cur, Head(s)))

\* component.strip(" .")
RECURSIVE StripSpaceDot(_)
StripSpaceDot(s) ==
    IF s # <<>> /\ Head(s) \in {"SP", "."} THEN StripSpaceDot(Tail(s))
    ELSE IF s # <<>> /\ Last(s) \in {"SP", "."} THEN StripSpaceDot(Front(s))
    ELSE s

\* a loop body that strips every component
SanitizeComponentAlways(component) ==
    IF StripSpaceDot(component) = <<>> THEN Unnamed ELSE StripSpaceDot(component)

\* the body of the loop over the components
SanitizeComponent(component) ==
    IF component = <<".">> \/ component = <<".", ".">> THEN component
    ELSE IF StripSpaceDot(component) = <<>> THEN Unnamed
    ELSE StripSpaceDot(component)

\* sanitize_filename(filename)
SanitizeFilename(filename) ==
    IF filename = NotAStr THEN Unnamed
    ELSE LET components == SplitOn(ReplaceSeparators(ReplaceReserved(filename)),
                                   {TempSep}, <<>>)
         IN  Join(<<"_", "_", "_">>,
                  [i \in 1..Len(components) |-> SanitizeComponent(components[i])])

\* ---- bounded inputs
MaxNameLen == 4

\* a  .  space  /  \  <  ?  and the text of temp_sep
NameChars == {"a", ".", "SP", "/", "BS", "<", "?", TempSep}

SanitizeInit ==
    /\ vpath \in SeqsUpTo(NameChars, MaxNameLen) \cup {NotAStr}
    /\ allow_absolute = FALSE
    /\ verdict = NoVerdict
    /\ vphase = "new"

\* PathValidator.sanitize_filename(filename)
SanitizeFilenameCall ==
    /\ vphase = "new"
    /\ verdict' = [status |-> "returned", resolved |-> SanitizeFilename(vpath)]
    /\ vphase' = "sanitized"
    /\ UNCHANGED <<vpath, allow_absolute>>
    /\ UNCHANGED <<codecVars, extractVars, globVars, creatorVars, manifestVars, detectVars>>

SanitizeNext == SanitizeFilenameCall

\* the sanitizer alone
SanitizeStart == SanitizeInit /\ CodecIdle /\ ExtractIdle /\ GlobIdle /\ CreatorIdle /\ ManifestIdle /\ DetectIdle

SpecSanitize == SanitizeStart /\ [][SanitizeNext]_vars

\* the characters the output must not hold
Forbidden == ReservedChars \cup {"/", "BS"}

\* the name with every reserved character and every separator turned into
\* one underscore, the components between separators stripped of dots and
\* spaces first, and the placeholder for an empty result
OneUnderscoreEach(name) ==
    LET parts  == SplitOn(ReplaceReserved(name), {"/", "BS"}, <<>>)
        joined == Join(<<"_">>, [i \in 1..Len(parts) |-> StripSpaceDot(parts[i])])
    IN  IF joined = <<>> THEN Unnamed ELSE joined

\* the same with three underscores for a separator, the components "." and
\* ".." kept, and the placeholder for every empty component
ThreeUnderscores(name) ==
    LET parts == SplitOn(name, {"/", "BS"}, <<>>)
        clean(c) == IF c \in {<<".">>, <<".", ".">>} THEN c
                    ELSE IF StripSpaceDot(c) = <<>> THEN Unnamed
                    ELSE ReplaceReserved(StripSpaceDot(c))
    IN  Join(<<"_", "_", "_">>, [i \in 1..Len(parts) |-> clean(parts[i])])

\* the name is a str that does not hold the text of temp_sep
PlainName(name) == name # NotAStr /\ \A i \in 1..Len(name) : name[i] # TempSep

====
